---- MODULE Spec2Model ----
(***************************************************************************)
(* adrgen: the record lifecycle engine (main.go, the interactive front end, *)
(* and the flag front end of the second main package).                      *)
(*                                                                          *)
(* Representation.  A Go string is a sequence of one-character strings      *)
(* ("adr-" is <<"a","d","r","-">>); a character outside ASCII is one        *)
(* element named by its code point ("U+1F4C4").  A text (a file's content,  *)
(* a template) is held as strings.Split(text, "\n") gives it: a non-empty   *)
(* sequence of lines, none of which holds a line feed; strings.Join(lines,  *)
(* "\n") is its inverse, so "a\n" is <<a, <<>>>> and "" is << <<>> >>.      *)
(* The store directory is a sequence of entries in on-disk order;           *)
(* os.ReadDir returns them sorted by name.                                  *)
(***************************************************************************)
EXTENDS Integers, Sequences, FiniteSets, Bags, TLC

VARIABLES
    dirExists,  \* the store directory adrDir exists
    store,      \* its entries, in on-disk order: [name, isDir, content]
    pre,        \* what the last invocation of main found: the directory when it
                \* started, the store when it came to its reads and writes (for
                \* main.go: when the title was given)
    last,       \* the last invocation of main: its inputs and what it reported
    ops,        \* invocations started so far
    waiting,    \* the invocations of main.go that wait at their title prompt
    body,       \* the text updateStatus is applied to (status merge runs)
    steps,      \* the status changes applied so far: [status, before, after]
    out         \* the result of the last scanner call (scanner runs); what the
                \* runs so far amount to (sequences of runs)

vars == <<dirExists, store, pre, last, ops, waiting, body, steps, out>>

(***************************************************************************)
(* Bounds of the model.                                                    *)
(***************************************************************************)
MaxOps == 1        \* invocations of main in one behaviour of Spec, one after the other
MaxBetween == 1    \* invocations more that start while one of them waits at its prompt
MaxWaiting == 2    \* invocations of main.go that wait at their title prompt at one time
MaxLines == 3      \* lines of a body given to updateStatus
MaxChanges == 2    \* successive status changes applied to one body
MaxEntries == 3    \* directory entries of a scanned store
MaxPieces == 3     \* pieces a rendered template is made of
MaxStatus == 2     \* how many of the menu's statuses are offered as inputs
MaxFailed == 1     \* failed runs that change the store, from a stale index to its rebuild
MaxRuns == 2       \* runs in one sequence of runs (SpecSeq, SpecFiles); in SpecHeal
                   \* the runs that fail and change the store come on top

(***************************************************************************)
(* Characters.                                                             *)
(***************************************************************************)
\* The printable ASCII characters in byte order, " " (0x20) to "~" (0x7E); the
\* grave accent (0x60) is written "U+0060".
Ascii == <<" ","!","\"","#","$","%","&","'","(",")","*","+",",","-",".","/","0","1","2","3","4",
    "5","6","7","8","9",":",";","<","=",">","?","@","A","B","C","D","E","F","G","H","I","J","K",
    "L","M","N","O","P","Q","R","S","T","U","V","W","X","Y","Z","[","\\","]","^","_","U+0060","a",
    "b","c","d","e","f","g","h","i","j","k","l","m","n","o","p","q","r","s","t","u","v","w","x",
    "y","z","{","|","}","~">>

Digits == {"0","1","2","3","4","5","6","7","8","9"}

\* The characters outside printable ASCII in the order of their code points,
\* and those code points: the control characters, the white space of
\* Unicode, the letters of Latin-1 with U+0178 and the Greek omegas, and the
\* punctuation and pictographs of the built-in templates.  Vertical tab is
\* written "U+000B".
Named == <<
    "\t", "\n", "U+000B", "\f", "\r", "U+0085", "U+00A0", "U+00B7",
    "U+00C0", "U+00C1", "U+00C2", "U+00C3", "U+00C4", "U+00C5", "U+00C6", "U+00C7",
    "U+00C8", "U+00C9", "U+00CA", "U+00CB", "U+00CC", "U+00CD", "U+00CE", "U+00CF",
    "U+00D0", "U+00D1", "U+00D2", "U+00D3", "U+00D4", "U+00D5", "U+00D6", "U+00D7",
    "U+00D8", "U+00D9", "U+00DA", "U+00DB", "U+00DC", "U+00DD", "U+00DE", "U+00E0",
    "U+00E1", "U+00E2", "U+00E3", "U+00E4", "U+00E5", "U+00E6", "U+00E7", "U+00E8",
    "U+00E9", "U+00EA", "U+00EB", "U+00EC", "U+00ED", "U+00EE", "U+00EF", "U+00F0",
    "U+00F1", "U+00F2", "U+00F3", "U+00F4", "U+00F5", "U+00F6", "U+00F7", "U+00F8",
    "U+00F9", "U+00FA", "U+00FB", "U+00FC", "U+00FD", "U+00FE", "U+00FF", "U+0178",
    "U+03A9", "U+03C9", "U+1680", "U+2000", "U+2001", "U+2002", "U+2003", "U+2004",
    "U+2005", "U+2006", "U+2007", "U+2008", "U+2009", "U+200A", "U+2018", "U+2019",
    "U+201C", "U+201E", "U+2028", "U+2029", "U+202F", "U+205F", "U+2705", "U+3000",
    "U+1F3AF", "U+1F4C4", "U+1F4CC", "U+1F501", "U+1F914">>
Codes == <<
    9, 10, 11, 12, 13, 133, 160, 183, 192, 193, 194, 195, 196, 197,
    198, 199, 200, 201, 202, 203, 204, 205, 206, 207, 208, 209, 210, 211,
    212, 213, 214, 215, 216, 217, 218, 219, 220, 221, 222, 224, 225, 226,
    227, 228, 229, 230, 231, 232, 233, 234, 235, 236, 237, 238, 239, 240,
    241, 242, 243, 244, 245, 246, 247, 248, 249, 250, 251, 252, 253, 254,
    255, 376, 937, 969, 5760, 8192, 8193, 8194, 8195, 8196, 8197, 8198, 8199, 8200,
    8201, 8202, 8216, 8217, 8220, 8222, 8232, 8233, 8239, 8287, 9989, 12288, 127919, 128196,
    128204, 128257, 129300>>

\* unicode.IsSpace: what strings.TrimSpace removes.
WhiteSpace == {" ", "\t", "\n", "U+000B", "\f", "\r", "U+0085", "U+00A0", "U+1680",
               "U+2000", "U+2001", "U+2002", "U+2003", "U+2004", "U+2005", "U+2006",
               "U+2007", "U+2008", "U+2009", "U+200A", "U+2028", "U+2029", "U+202F",
               "U+205F", "U+3000"}

\* Whether c is in the sequence, and where.
IsIn(c, seq) == \E i \in DOMAIN seq : seq[i] = c
Position(c, seq) == CHOOSE i \in DOMAIN seq : seq[i] = c

\* The code point of a character.
Rune(c) == IF IsIn(c, Ascii) THEN 31 + Position(c, Ascii) ELSE Codes[Position(c, Named)]

\* The bytes of a code point in a Go string (UTF-8), and those of each
\* character.
EncodeRune(r) ==
    IF r < 128 THEN <<r>>
    ELSE IF r < 2048 THEN <<192 + (r \div 64), 128 + (r % 64)>>
    ELSE IF r < 65536
         THEN <<224 + (r \div 4096), 128 + ((r \div 64) % 64), 128 + (r % 64)>>
    ELSE <<240 + (r \div 262144), 128 + ((r \div 4096) % 64),
           128 + ((r \div 64) % 64), 128 + (r % 64)>>
Utf8 == [c \in {Ascii[i] : i \in DOMAIN Ascii} \cup {Named[i] : i \in DOMAIN Named} |->
            EncodeRune(Rune(c))]

\* The letters that have case, the two cases of a letter at one position:
\* the ASCII and Latin-1 letters, U+0178 with U+00FF, and the Greek omegas.
UpperLetters == <<
    "A", "B", "C", "D", "E", "F", "G", "H", "I", "J",
    "K", "L", "M", "N", "O", "P", "Q", "R", "S", "T",
    "U", "V", "W", "X", "Y", "Z", "U+00C0", "U+00C1", "U+00C2", "U+00C3",
    "U+00C4", "U+00C5", "U+00C6", "U+00C7", "U+00C8", "U+00C9", "U+00CA", "U+00CB", "U+00CC", "U+00CD",
    "U+00CE", "U+00CF", "U+00D0", "U+00D1", "U+00D2", "U+00D3", "U+00D4", "U+00D5", "U+00D6", "U+00D8",
    "U+00D9", "U+00DA", "U+00DB", "U+00DC", "U+00DD", "U+00DE", "U+0178", "U+03A9">>
LowerLetters == <<
    "a", "b", "c", "d", "e", "f", "g", "h", "i", "j",
    "k", "l", "m", "n", "o", "p", "q", "r", "s", "t",
    "u", "v", "w", "x", "y", "z", "U+00E0", "U+00E1", "U+00E2", "U+00E3",
    "U+00E4", "U+00E5", "U+00E6", "U+00E7", "U+00E8", "U+00E9", "U+00EA", "U+00EB", "U+00EC", "U+00ED",
    "U+00EE", "U+00EF", "U+00F0", "U+00F1", "U+00F2", "U+00F3", "U+00F4", "U+00F5", "U+00F6", "U+00F8",
    "U+00F9", "U+00FA", "U+00FB", "U+00FC", "U+00FD", "U+00FE", "U+00FF", "U+03C9">>

\* The letters of the case `from`, each with the letter at its place in the
\* other case.
CaseMap(from, to) == [c \in {from[i] : i \in DOMAIN from} |-> to[Position(c, from)]]
ToLowerMap == CaseMap(UpperLetters, LowerLetters)
ToTitleMap == CaseMap(LowerLetters, UpperLetters)

\* unicode.ToLower, and the title case of a letter (unicode.ToTitle): a
\* character that is no letter of the other case stays as it is.
LowerChar(c) == IF c \in DOMAIN ToLowerMap THEN ToLowerMap[c] ELSE c
UpperChar(c) == IF c \in DOMAIN ToTitleMap THEN ToTitleMap[c] ELSE c

(***************************************************************************)
(* The functions of package strings, strconv and fmt that the program      *)
(* calls, on strings as sequences of characters.                           *)
(***************************************************************************)
Min(S) == CHOOSE x \in S : \A y \in S : x <= y
Max(S) == CHOOSE x \in S : \A y \in S : y <= x

Drop(s, k) == SubSeq(s, k + 1, Len(s))

HasPrefix(s, p) == Len(p) <= Len(s) /\ SubSeq(s, 1, Len(p)) = p
HasSuffix(s, p) == Len(p) <= Len(s) /\ SubSeq(s, Len(s) - Len(p) + 1, Len(s)) = p
TrimPrefix(s, p) == IF HasPrefix(s, p) THEN Drop(s, Len(p)) ELSE s
TrimSuffix(s, p) == IF HasSuffix(s, p) THEN SubSeq(s, 1, Len(s) - Len(p)) ELSE s

\* strings.Index: where sep first occurs in s (from 1), 0 when it does not.
Index(s, sep) ==
    LET at == {i \in 1..(Len(s) - Len(sep) + 1) :
                  s[i] = sep[1] /\ SubSeq(s, i, i + Len(sep) - 1) = sep}
    IN  IF at = {} THEN 0 ELSE Min(at)

\* strings.Split(s, sep), sep not empty.
RECURSIVE Split(_, _)
Split(s, sep) ==
    LET i == Index(s, sep)
    IN  IF i = 0 THEN <<s>>
        ELSE <<SubSeq(s, 1, i - 1)>> \o Split(Drop(s, i + Len(sep) - 1), sep)

\* strings.SplitN(s, sep, 2)
SplitN2(s, sep) ==
    LET i == Index(s, sep)
    IN  IF i = 0 THEN <<s>> ELSE <<SubSeq(s, 1, i - 1), Drop(s, i + Len(sep) - 1)>>

RECURSIVE Join(_, _)
Join(parts, sep) ==
    IF parts = <<>> THEN <<>>
    ELSE IF Len(parts) = 1 THEN parts[1]
    ELSE parts[1] \o sep \o Join(Tail(parts), sep)

\* strings.ReplaceAll(s, old, new), old not empty: the non-overlapping
\* occurrences of old, found from the left, are replaced.
ReplaceAll(s, old, new) == Join(Split(s, old), new)

ToLower(s) == [i \in 1..Len(s) |-> LowerChar(s[i])]

\* strings.TrimSpace
TrimSpace(s) ==
    LET keep == {i \in 1..Len(s) : s[i] \notin WhiteSpace}
    IN  IF keep = {} THEN <<>> ELSE SubSeq(s, Min(keep), Max(keep))

DigitValue(c) == Position(c, Ascii) - 17

RECURSIVE DigitsValue(_)
DigitsValue(ds) ==
    IF ds = <<>> THEN 0 ELSE 10 * DigitsValue(SubSeq(ds, 1, Len(ds) - 1)) + DigitValue(ds[Len(ds)])

RECURSIVE Decimal(_)
Decimal(n) == IF n < 10 THEN <<Ascii[n + 17]>> ELSE Decimal(n \div 10) \o <<Ascii[(n % 10) + 17]>>

\* An int of the program (64 bits) is kept as its sign and the decimal digits
\* of its magnitude, without leading zeros (none at all for zero), so that
\* every value of the width can be written.  IntOf(n) is the int of a small
\* natural number n.
IntOf(n) == [neg |-> FALSE, mag |-> IF n = 0 THEN <<>> ELSE Decimal(n)]

\* The magnitudes of 2^63 - 1, the largest int, and of -2^63, the smallest.
MaxInt64 == <<"9","2","2","3","3","7","2","0","3","6","8","5","4","7","7","5","8","0","7">>
MinInt64 == [MaxInt64 EXCEPT ![19] = "8"]

\* a < b on magnitudes: the shorter is the smaller, and two of one length
\* compare at their first different digit.
MagLess(a, b) ==
    \/ Len(a) < Len(b)
    \/ /\ Len(a) = Len(b)
       /\ \E i \in 1..Len(a) :
             /\ SubSeq(a, 1, i - 1) = SubSeq(b, 1, i - 1)
             /\ DigitValue(a[i]) < DigitValue(b[i])

\* x < y on ints.
IntLess(x, y) ==
    IF x.neg # y.neg THEN x.neg
    ELSE IF x.neg THEN MagLess(y.mag, x.mag)
    ELSE MagLess(x.mag, y.mag)

\* The magnitude after a: a + 1.
RECURSIVE MagSucc(_)
MagSucc(a) ==
    IF a = <<>> THEN <<"1">>
    ELSE IF a[Len(a)] = "9" THEN MagSucc(SubSeq(a, 1, Len(a) - 1)) \o <<"0">>
    ELSE SubSeq(a, 1, Len(a) - 1) \o <<Ascii[DigitValue(a[Len(a)]) + 18]>>

\* x + 1 for an int x >= 0, as the machine computes it: after the largest
\* int comes the smallest.
IntSucc(x) ==
    IF x.mag = MaxInt64 THEN [neg |-> TRUE, mag |-> MinInt64]
    ELSE [neg |-> FALSE, mag |-> MagSucc(x.mag)]

\* strconv.Atoi: [ok, val].  An optional sign, then decimal digits and nothing
\* else, of a value that an int holds; leading zeros do not count.
Atoi(s) ==
    LET signed == s # <<>> /\ s[1] \in {"+", "-"}
        negative == signed /\ s[1] = "-"
        ds == IF signed THEN Tail(s) ELSE s
        nonzero == {i \in 1..Len(ds) : ds[i] # "0"}
        mag == IF nonzero = {} THEN <<>> ELSE Drop(ds, Min(nonzero) - 1)
    IN  IF ds = <<>> \/ \E i \in 1..Len(ds) : ds[i] \notin Digits
        THEN [ok |-> FALSE, val |-> IntOf(0)]
        ELSE IF MagLess(IF negative THEN MinInt64 ELSE MaxInt64, mag)
        THEN [ok |-> FALSE, val |-> IntOf(0)]
        ELSE [ok |-> TRUE, val |-> [neg |-> negative /\ mag # <<>>, mag |-> mag]]

\* fmt.Sprintf("%03d", x): the digits of the magnitude, zeros before them up
\* to a width of three, the sign of a negative int counted in the width.
Sprintf03d(x) ==
    LET ds == IF x.mag = <<>> THEN <<"0">> ELSE x.mag
        width == IF x.neg THEN 2 ELSE 3
        padded == IF Len(ds) >= width THEN ds ELSE [i \in 1..(width - Len(ds)) |-> "0"] \o ds
    IN  IF x.neg THEN <<"-">> \o padded ELSE padded

\* The order of two different characters c and d by their bytes: at the first
\* byte that differs (no encoding of a character is a prefix of another's).
BytesLess(c, d, bytes) ==
    LET i == Min({k \in 1..Min({Len(bytes[c]), Len(bytes[d])}) : bytes[c][k] # bytes[d][k]})
    IN  bytes[c][i] < bytes[d][i]

\* String comparison as Go's < on strings: byte by byte, a prefix first.
RECURSIVE StrLess(_, _)
StrLess(a, b) ==
    IF b = <<>> THEN FALSE
    ELSE IF a = <<>> THEN TRUE
    ELSE IF a[1] = b[1] THEN StrLess(Tail(a), Tail(b))
    ELSE BytesLess(a[1], b[1], Utf8)

\* sort.Strings: ascending order (insertion into a sorted sequence).
RECURSIVE InsertSorted(_, _)
InsertSorted(sorted, x) ==
    IF sorted = <<>> THEN <<x>>
    ELSE IF StrLess(x, sorted[1]) THEN <<x>> \o sorted
    ELSE <<sorted[1]>> \o InsertSorted(Tail(sorted), x)

RECURSIVE SortStrings(_)
SortStrings(names) ==
    IF names = <<>> THEN <<>>
    ELSE InsertSorted(SortStrings(SubSeq(names, 1, Len(names) - 1)), names[Len(names)])

(***************************************************************************)
(* Texts: sequences of lines.                                              *)
(***************************************************************************)
\* The concatenation of two texts as strings: the last line of the first
\* continues with the first line of the second.
Cat(a, b) == SubSeq(a, 1, Len(a) - 1) \o <<a[Len(a)] \o b[1]>> \o Tail(b)

\* The text of a string that holds no line feed, and that string + "\n".
Text(s) == <<s>>
TextLn(s) == <<s, <<>>>>

\* The lines appended to a slice, group after group: the groups lo..hi of
\* `groups`, one after the other.
RECURSIVE ConcatRange(_, _, _)
ConcatRange(groups, lo, hi) ==
    IF lo > hi THEN <<>>
    ELSE IF lo = hi THEN groups[lo]
    ELSE LET mid == (lo + hi) \div 2
         IN  ConcatRange(groups, lo, mid) \o ConcatRange(groups, mid + 1, hi)

Concat(groups) == ConcatRange(groups, 1, Len(groups))

(***************************************************************************)
(* Constants of the program.                                               *)
(***************************************************************************)
\* main.go:19  const indexFile = "README.md"
indexFile == <<"R","E","A","D","M","E",".","m","d">>
\* main.go:20  const templateFile = "template.md"
templateFile == <<"t","e","m","p","l","a","t","e",".","m","d">>
\* "adr-", the start of a record file name (main.go:140, 162)
adrPrefix == <<"a","d","r","-">>
\* "-"
Hyphen == <<"-">>
\* " "
Space == <<" ">>
\* "_"
Underscore == <<"_">>
\* "docs/adr", element by element
adrDir == << <<"d","o","c","s">>, <<"a","d","r">> >>
\* "/" and ".."
Slash == <<"/">>
DotDot == <<".", ".">>
\* ".md"
mdSuffix == <<".","m","d">>
\* "**Status**: "
StatusMarker == <<"*","*","S","t","a","t","u","s","*","*",":"," ">>
\* "**Previous Status**: "
PreviousMarker == <<"*","*","P","r","e","v","i","o","u","s"," ","S","t","a","t","u","s","*","*",
    ":"," ">>
\* "**Date**: "
DateMarker == <<"*","*","D","a","t","e","*","*",":"," ">>
\* "# ADR"
HeadingMarker == <<"#"," ","A","D","R">>
\* ": "
ColonSpace == <<":"," ">>
\* "  "
TwoSpaces == <<" "," ">>
\* "{{number}}"
PhNumber == <<"{","{","n","u","m","b","e","r","}","}">>
\* "{{status}}"
PhStatus == <<"{","{","s","t","a","t","u","s","}","}">>
\* "{{title}}"
PhTitle == <<"{","{","t","i","t","l","e","}","}">>
\* "{{date}}"
PhDate == <<"{","{","d","a","t","e","}","}">>
\* "- ["
EntryOpen == <<"-"," ","[">>
\* "]("
EntryMid == <<"]","(">>
\* ")"
EntryClose == <<")">>
\* "Adr "
AdrSpace == <<"A","d","r"," ">>
\* "ADR "
ADRSpace == <<"A","D","R"," ">>
\* main.go:63  the index heading, as the source file spells it
IndexHeading == <<"#"," ","U+00F0","U+0178","U+201C","U+201E"," ","A","r","c","h","i","t","e",
    "c","t","u","r","e"," ","D","e","c","i","s","i","o","n"," ","R","e","c","o","r","d","s">>
\* the index heading of the flag front end
FlagIndexHeading == <<"#"," ","U+1F4C4"," ","A","r","c","h","i","t","e","c","t","u","r","e"," ",
    "D","e","c","i","s","i","o","n"," ","R","e","c","o","r","d","s">>
\* "Accepted"
Accepted == <<"A","c","c","e","p","t","e","d">>
\* "Proposed"
Proposed == <<"P","r","o","p","o","s","e","d">>
\* "Rejected"
Rejected == <<"R","e","j","e","c","t","e","d">>
\* "Superseded"
Superseded == <<"S","u","p","e","r","s","e","d","e","d">>
\* "Deprecated"
Deprecated == <<"D","e","p","r","e","c","a","t","e","d">>
\* the built-in template of loadTemplateOrDefault (main.go:81-121)
DefaultTemplate == <<
    <<"#"," ","A","D","R"," ","{","{","n","u","m","b","e","r","}","}",":"," ","{","{","t","i","t",
     "l","e","}","}">>,
    <<>>,
    <<"*","*","S","t","a","t","u","s","*","*",":"," ","{","{","s","t","a","t","u","s","}","}"," ",
     " ">>,
    <<"*","*","D","a","t","e","*","*",":"," ","{","{","d","a","t","e","}","}">>,
    <<>>,
    <<"-","-","-">>,
    <<>>,
    <<"#","#"," ","C","o","n","t","e","x","t">>,
    <<>>,
    <<"D","e","s","c","r","i","b","e"," ","h","e","r","e"," ","t","h","e"," ","p","r","o","b","l",
     "e","m",","," ","n","e","e","d",","," ","o","r"," ","m","o","t","i","v","a","t","i","o",
     "n"," ","f","o","r"," ","t","h","i","s"," ","d","e","c","i","s","i","o","n","."," ","I",
     "n","c","l","u","d","e"," ","t","h","e"," ","c","u","r","r","e","n","t"," ","s","c","e",
     "n","a","r","i","o",","," ","t","e","c","h","n","i","c","a","l"," ","o","r"," ","b","u",
     "s","i","n","e","s","s"," ","c","o","n","s","t","r","a","i","n","t","s",","," ","a","n",
     "d"," ","t","h","e"," ","f","a","c","t","o","r","s"," ","i","n","f","l","u","e","n","c",
     "i","n","g"," ","t","h","e"," ","c","h","o","i","c","e",".">>,
    <<>>,
    <<"#","#"," ","D","e","c","i","s","i","o","n">>,
    <<>>,
    <<"C","l","e","a","r","l","y"," ","s","t","a","t","e"," ","t","h","e"," ","d","e","c","i","s",
     "i","o","n"," ","m","a","d","e","."," ","F","o","r"," ","e","x","a","m","p","l","e",":">>,
    <<>>,
    <<">"," ","W","e"," ","d","e","c","i","d","e","d"," ","t","o"," ","a","d","o","p","t"," ","t",
     "h","e"," ","X","Y","Z"," ","f","r","a","m","e","w","o","r","k"," ","f","o","r"," ","d",
     "e","v","e","l","o","p","i","n","g"," ","R","E","S","T"," ","A","P","I","s"," ","i","n",
     " ","t","h","e"," ","A","B","C"," ","p","r","o","j","e","c","t",".">>,
    <<>>,
    <<"#","#"," ","C","o","n","s","i","d","e","r","e","d"," ","A","l","t","e","r","n","a","t","i",
     "v","e","s">>,
    <<>>,
    <<"-"," ","*","*","A","l","t","e","r","n","a","t","i","v","e"," ","A","*","*"," ","(","c","h",
     "o","s","e","n",")",":"," ","r","e","a","s","o","n","s"," ","f","o","r"," ","t","h","e",
     " ","c","h","o","i","c","e",".",".",".">>,
    <<"-"," ","*","*","A","l","t","e","r","n","a","t","i","v","e"," ","B","*","*",":"," ","r","e",
     "a","s","o","n","s"," ","f","o","r"," ","n","o","t"," ","c","h","o","o","s","i","n","g",
     ".",".",".">>,
    <<"-"," ","*","*","A","l","t","e","r","n","a","t","i","v","e"," ","C","*","*",":"," ","p","r",
     "o","s"," ","a","n","d"," ","c","o","n","s",".",".",".">>,
    <<>>,
    <<"#","#"," ","C","o","n","s","e","q","u","e","n","c","e","s">>,
    <<>>,
    <<"E","x","p","l","a","i","n"," ","t","h","e"," ","i","m","p","a","c","t","s"," ","o","f"," ",
     "t","h","i","s"," ","d","e","c","i","s","i","o","n",":">>,
    <<>>,
    <<"-"," ","I","m","m","e","d","i","a","t","e"," ","o","r"," ","l","o","n","g","-","t","e","r",
     "m"," ","b","e","n","e","f","i","t","s">>,
    <<"-"," ","P","o","s","s","i","b","l","e"," ","r","i","s","k","s"," ","o","r"," ","s","i","d",
     "e"," ","e","f","f","e","c","t","s">>,
    <<"-"," ","A","c","t","i","o","n","s"," ","r","e","q","u","i","r","e","d"," ","t","o"," ","i",
     "m","p","l","e","m","e","n","t"," ","t","h","e"," ","d","e","c","i","s","i","o","n">>,
    <<>>,
    <<"#","#"," ","R","e","l","a","t","i","o","n","s">>,
    <<>>,
    <<"-"," ","R","e","p","l","a","c","e","s"," ","A","D","R",":"," ","'","a","d","r","-","X","X",
     "X","X",".","m","d","'"," ","_","(","i","f"," ","a","p","p","l","i","c","a","b","l","e",
     ")","_">>,
    <<"-"," ","R","e","p","l","a","c","e","d"," ","b","y"," ","A","D","R",":"," ","'","a","d","r",
     "-","X","X","X","X",".","m","d","'"," ","_","(","i","f"," ","a","p","p","l","i","c","a",
     "b","l","e",")","_">>,
    <<"-"," ","R","e","l","a","t","e","d"," ","t","o",":"," ","i","s","s","u","e","s",","," ","R",
     "F","C","s",","," ","p","r","e","v","i","o","u","s"," ","d","e","c","i","s","i","o","n",
     "s">>,
    <<>>,
    <<"-","-","-">>,
    <<>>,
    <<"_","T","h","i","s"," ","A","D","R"," ","f","o","l","l","o","w","s"," ","t","h","e"," ","m",
     "o","d","e","l"," ","o","f"," ","[","J","o","e","l"," ","P","a","r","k","e","r"," ","H",
     "e","n","d","e","r","s","o","n","]","(","h","t","t","p","s",":","/","/","g","i","t","h",
     "u","b",".","c","o","m","/","j","o","e","l","p","a","r","k","e","r","h","e","n","d","e",
     "r","s","o","n","/","a","r","c","h","i","t","e","c","t","u","r","e","-","d","e","c","i",
     "s","i","o","n","-","r","e","c","o","r","d",")","_">>,
    <<>>
>>
\* the built-in template of the flag front end
FlagDefaultTemplate == <<
    <<"#"," ","A","D","R"," ","{","{","n","u","m","b","e","r","}","}",":"," ","{","{","t","i","t",
     "l","e","}","}">>,
    <<>>,
    <<"*","*","S","t","a","t","u","s","*","*",":"," ","{","{","s","t","a","t","u","s","}","}"," ",
     " ">>,
    <<"*","*","D","a","t","e","*","*",":"," ","{","{","d","a","t","e","}","}">>,
    <<>>,
    <<"-","-","-">>,
    <<>>,
    <<"#","#"," ","U+1F4CC"," ","C","o","n","t","e","x","t">>,
    <<>>,
    <<"D","e","s","c","r","i","b","e"," ","h","e","r","e"," ","t","h","e"," ","p","r","o","b","l",
     "e","m",","," ","n","e","e","d",","," ","o","r"," ","m","o","t","i","v","a","t","i","o",
     "n"," ","f","o","r"," ","t","h","i","s"," ","d","e","c","i","s","i","o","n","."," ","I",
     "n","c","l","u","d","e"," ","t","h","e"," ","c","u","r","r","e","n","t"," ","s","c","e",
     "n","a","r","i","o",","," ","t","e","c","h","n","i","c","a","l"," ","o","r"," ","b","u",
     "s","i","n","e","s","s"," ","c","o","n","s","t","r","a","i","n","t","s",","," ","a","n",
     "d"," ","t","h","e"," ","f","a","c","t","o","r","s"," ","i","n","f","l","u","e","n","c",
     "i","n","g"," ","t","h","e"," ","c","h","o","i","c","e",".">>,
    <<>>,
    <<"#","#"," ","U+2705"," ","D","e","c","i","s","i","o","n">>,
    <<>>,
    <<"C","l","e","a","r","l","y"," ","s","t","a","t","e"," ","t","h","e"," ","d","e","c","i","s",
     "i","o","n"," ","m","a","d","e","."," ","F","o","r"," ","e","x","a","m","p","l","e",":">>,
    <<>>,
    <<">"," ","W","e"," ","d","e","c","i","d","e","d"," ","t","o"," ","a","d","o","p","t"," ","t",
     "h","e"," ","X","Y","Z"," ","f","r","a","m","e","w","o","r","k"," ","f","o","r"," ","d",
     "e","v","e","l","o","p","i","n","g"," ","R","E","S","T"," ","A","P","I","s"," ","i","n",
     " ","t","h","e"," ","A","B","C"," ","p","r","o","j","e","c","t",".">>,
    <<>>,
    <<"#","#"," ","U+1F914"," ","C","o","n","s","i","d","e","r","e","d"," ","A","l","t","e","r","n",
     "a","t","i","v","e","s">>,
    <<>>,
    <<"-"," ","*","*","A","l","t","e","r","n","a","t","i","v","e"," ","A","*","*"," ","(","c","h",
     "o","s","e","n",")",":"," ","r","e","a","s","o","n","s"," ","f","o","r"," ","t","h","e",
     " ","c","h","o","i","c","e",".",".",".">>,
    <<"-"," ","*","*","A","l","t","e","r","n","a","t","i","v","e"," ","B","*","*",":"," ","r","e",
     "a","s","o","n","s"," ","f","o","r"," ","n","o","t"," ","c","h","o","o","s","i","n","g",
     ".",".",".">>,
    <<"-"," ","*","*","A","l","t","e","r","n","a","t","i","v","e"," ","C","*","*",":"," ","p","r",
     "o","s"," ","a","n","d"," ","c","o","n","s",".",".",".">>,
    <<>>,
    <<"#","#"," ","U+1F3AF"," ","C","o","n","s","e","q","u","e","n","c","e","s">>,
    <<>>,
    <<"E","x","p","l","a","i","n"," ","t","h","e"," ","i","m","p","a","c","t","s"," ","o","f"," ",
     "t","h","i","s"," ","d","e","c","i","s","i","o","n",":">>,
    <<>>,
    <<"-"," ","I","m","m","e","d","i","a","t","e"," ","o","r"," ","l","o","n","g","-","t","e","r",
     "m"," ","b","e","n","e","f","i","t","s">>,
    <<"-"," ","P","o","s","s","i","b","l","e"," ","r","i","s","k","s"," ","o","r"," ","s","i","d",
     "e"," ","e","f","f","e","c","t","s">>,
    <<"-"," ","A","c","t","i","o","n","s"," ","r","e","q","u","i","r","e","d"," ","t","o"," ","i",
     "m","p","l","e","m","e","n","t"," ","t","h","e"," ","d","e","c","i","s","i","o","n">>,
    <<>>,
    <<"#","#"," ","U+1F501"," ","R","e","l","a","t","i","o","n","s">>,
    <<>>,
    <<"-"," ","R","e","p","l","a","c","e","s"," ","A","D","R",":"," ","'","a","d","r","-","X","X",
     "X","X",".","m","d","'"," ","_","(","i","f"," ","a","p","p","l","i","c","a","b","l","e",
     ")","_">>,
    <<"-"," ","R","e","p","l","a","c","e","d"," ","b","y"," ","A","D","R",":"," ","'","a","d","r",
     "-","X","X","X","X",".","m","d","'"," ","_","(","i","f"," ","a","p","p","l","i","c","a",
     "b","l","e",")","_">>,
    <<"-"," ","R","e","l","a","t","e","d"," ","t","o",":"," ","i","s","s","u","e","s",","," ","R",
     "F","C","s",","," ","p","r","e","v","i","o","u","s"," ","d","e","c","i","s","i","o","n",
     "s">>,
    <<>>,
    <<"-","-","-">>,
    <<>>,
    <<"_","T","h","i","s"," ","A","D","R"," ","f","o","l","l","o","w","s"," ","t","h","e"," ","m",
     "o","d","e","l"," ","o","f"," ","[","J","o","e","l"," ","P","a","r","k","e","r"," ","H",
     "e","n","d","e","r","s","o","n","]","(","h","t","t","p","s",":","/","/","g","i","t","h",
     "u","b",".","c","o","m","/","j","o","e","l","p","a","r","k","e","r","h","e","n","d","e",
     "r","s","o","n","/","a","r","c","h","i","t","e","c","t","u","r","e","-","d","e","c","i",
     "s","i","o","n","-","r","e","c","o","r","d",")","_">>,
    <<>>
>>

\* promptForStatus: the menu of statuses (main.go:204).
StatusMenu == <<Accepted, Proposed, Rejected, Superseded, Deprecated>>

(***************************************************************************)
(* The store directory.                                                    *)
(***************************************************************************)
\* A file holds a text; a subdirectory holds entries of its own, none at first.
File(name, content) == [name |-> name, isDir |-> FALSE, content |-> content]
SubDir(name) == [name |-> name, isDir |-> TRUE, content |-> <<>>]

Names(st) == {st[i].name : i \in 1..Len(st)}
EntryAt(st, name) == CHOOSE i \in 1..Len(st) : st[i].name = name

\* filepath.Clean on the elements of a path, `stack` being the cleaned part:
\* an empty element and "." are dropped, ".." takes the element before it
\* away and stays when there is none.
RECURSIVE Clean(_, _)
Clean(stack, elems) ==
    IF elems = <<>> THEN stack
    ELSE IF elems[1] \in {<<>>, <<".">>} THEN Clean(stack, Tail(elems))
    ELSE IF elems[1] = DotDot /\ stack # <<>> /\ stack[Len(stack)] # DotDot
    THEN Clean(SubSeq(stack, 1, Len(stack) - 1), Tail(elems))
    ELSE Clean(Append(stack, elems[1]), Tail(elems))

\* filepath.Join(adrDir, name): the elements of the cleaned path.
JoinAdrDir(name) == Clean(adrDir, Split(name, Slash))

\* Where a path lies.  Inside the store it is the elements after adrDir.
\* Outside, the directories there are taken to be the ancestors of the store
\* and no other: the working directory, "docs", and what ".." leads to.
InStore(path) == Len(path) >= Len(adrDir) /\ SubSeq(path, 1, Len(adrDir)) = adrDir
IsAncestor(path) ==
    \/ Len(path) < Len(adrDir) /\ path = SubSeq(adrDir, 1, Len(path))
    \/ \A i \in 1..Len(path) : path[i] = DotDot

\* The entry a path leads to from the entries of a directory: [ok, entry].
IsFile(found) == found.ok /\ ~found.entry.isDir

RECURSIVE Find(_, _)
Find(st, path) ==
    IF path = <<>> \/ path[1] \notin Names(st) THEN [ok |-> FALSE, entry |-> SubDir(<<>>)]
    ELSE IF Len(path) = 1 THEN [ok |-> TRUE, entry |-> st[EntryAt(st, path[1])]]
    ELSE IF ~st[EntryAt(st, path[1])].isDir THEN [ok |-> FALSE, entry |-> SubDir(<<>>)]
    ELSE Find(st[EntryAt(st, path[1])].content, Tail(path))

\* os.ReadDir: the entries sorted by file name.
ReadDir(st) ==
    LET sorted == SortStrings([i \in 1..Len(st) |-> st[i].name])
    IN  [i \in 1..Len(st) |-> st[EntryAt(st, sorted[i])]]

\* os.ReadFile(filepath.Join(adrDir, name)): fails on a missing entry and on
\* a directory.
IsFileAt(st, path) == InStore(path) /\ IsFile(Find(st, Drop(path, Len(adrDir))))
CanReadFile(st, name) == IsFileAt(st, JoinAdrDir(name))
ReadFile(st, name) == Find(st, Drop(JoinAdrDir(name), Len(adrDir))).entry.content

\* os.WriteFile at a path below a directory with the entries st: [err, store].
\* The file is created, or its content replaced in place.  It fails, and
\* nothing changes, when the path is a directory's, or leads through a
\* directory that is not there or through a file.
RECURSIVE WriteAt(_, _, _)
WriteAt(st, path, content) ==
    IF path[1] \notin Names(st)
    THEN IF Len(path) = 1 THEN [err |-> FALSE, store |-> Append(st, File(path[1], content))]
         ELSE [err |-> TRUE, store |-> st]
    ELSE LET i == EntryAt(st, path[1])
             below == WriteAt(st[i].content, Tail(path), content)
         IN  IF Len(path) = 1
             THEN IF st[i].isDir THEN [err |-> TRUE, store |-> st]
                  ELSE [err |-> FALSE, store |-> [st EXCEPT ![i].content = content]]
             ELSE IF ~st[i].isDir THEN [err |-> TRUE, store |-> st]
             ELSE [err |-> below.err, store |-> [st EXCEPT ![i].content = below.store]]

\* os.WriteFile(filepath.Join(adrDir, name), content): [err, store].  A path
\* that leaves the store changes nothing in it: there the write fails on a
\* directory and in a directory that is not there.
WritePath(st, path, content) ==
    IF InStore(path)
    THEN IF path = adrDir THEN [err |-> TRUE, store |-> st]
         ELSE WriteAt(st, Drop(path, Len(adrDir)), content)
    ELSE [err |-> IsAncestor(path) \/ ~IsAncestor(SubSeq(path, 1, Len(path) - 1)),
          store |-> st]
WriteFile(st, name, content) == WritePath(st, JoinAdrDir(name), content)

\* What os.WriteFile writes: the content, or, when it fails after the file
\* was opened (`cut`), the first `lines` lines of it and no more.
Written(content, cut, lines) ==
    IF ~cut THEN content ELSE IF lines = 0 THEN Text(<<>>) ELSE SubSeq(content, 1, lines)
\* And what it returns then: an error, whatever the store said.
Failing(written, cut) == [err |-> written.err \/ cut, store |-> written.store]

\* os.Remove
Remove(st, name) == SelectSeq(st, LAMBDA e : e.name # name)

(***************************************************************************)
(* Slug formatter, template renderer, scanner and index builder.           *)
(***************************************************************************)
toKebabCase(s) == ReplaceAll(ReplaceAll(ToLower(s), Space, Hyphen), Underscore, Hyphen)

\* The classes of characters that cases.Title tells apart: the letters that
\* have case; the marks that may stand inside a word (apostrophe, full stop,
\* colon and their like); and the characters that end a word, which is every
\* character that is no letter, no digit, no such mark, and neither "_" nor
\* the narrow no-break space U+202F, which join the parts of a word.
IsCased(c) == c \in DOMAIN ToLowerMap \/ c \in DOMAIN ToTitleMap
IsMid(c) == c \in {"'", ".", ":", "U+00B7", "U+2018", "U+2019"}
IsBreak(c) == ~IsCased(c) /\ ~IsMid(c) /\ c \notin Digits \cup {"_", "U+202F"}

\* Whether the character at i continues a word that has had its capital: a
\* cased letter came before it, with no word end since and no two marks in a
\* row (the second of them counted even when it is the character at i).
IsMidWord(s, i) ==
    \E j \in 1..(i - 1) :
        /\ IsCased(s[j])
        /\ \A k \in (j + 1)..(i - 1) : ~IsBreak(s[k])
        /\ \A k \in (j + 1)..i : ~(IsMid(s[k - 1]) /\ IsMid(s[k]))

\* cases.Title(language.English).String: the first cased letter of a word in
\* title case, the later ones in lower case, every other character as it is.
TitleCase(s) ==
    [i \in 1..Len(s) |->
        IF ~IsCased(s[i]) THEN s[i]
        ELSE IF IsMidWord(s, i) THEN LowerChar(s[i])
        ELSE UpperChar(s[i])]

extractTitleFromFilename(filename) ==
    LET name == TrimSuffix(filename, mdSuffix)
        parts == SplitN2(name, Hyphen)
    IN  IF Len(parts) < 2 THEN filename
        ELSE ReplaceAll(TitleCase(ReplaceAll(parts[2], Hyphen, Space)), AdrSpace, ADRSpace)

\* IsRecord as it would be if the reserved names were not excluded.
IsRecord_WithReserved(e) == ~(e.isDir \/ ~HasSuffix(e.name, mdSuffix))

\* The test both directory scans apply to an entry (main.go:54, 157).
IsRecord(e) ==
    ~(e.isDir \/ ~HasSuffix(e.name, mdSuffix) \/ e.name = indexFile \/ e.name = templateFile)

IndexEntry(adr) ==
    EntryOpen \o extractTitleFromFilename(adr) \o EntryMid \o adr \o EntryClose

RECURSIVE IndexEntries(_)
IndexEntries(adrs) ==
    IF adrs = <<>> THEN Text(<<>>)
    ELSE Cat(TextLn(IndexEntry(adrs[1])), IndexEntries(Tail(adrs)))

\* indexContent as it would be with the entries in descending order.
indexContent_Descending(files, heading) ==
    LET recs == SelectSeq(files, IsRecord)
        adrs == SortStrings([i \in 1..Len(recs) |-> recs[i].name])
        desc == [i \in 1..Len(adrs) |-> adrs[Len(adrs) + 1 - i]]
    IN  Cat(Cat(Text(heading), << <<>>, <<>>, <<>> >>), IndexEntries(desc))

\* The content updateIndex builds from the directory listing.
indexContent(files, heading) ==
    LET recs == SelectSeq(files, IsRecord)
        adrs == SortStrings([i \in 1..Len(recs) |-> recs[i].name])
    IN  Cat(Cat(Text(heading), << <<>>, <<>>, <<>> >>), IndexEntries(adrs))

\* updateIndex as it would be if an index file already there were kept.
updateIndex_KeepExisting(dx, st, heading, faults) ==
    IF ~dx \/ "index" \in faults THEN [err |-> TRUE, store |-> st]
    ELSE IF indexFile \in Names(st) THEN [err |-> FALSE, store |-> st]
    ELSE Failing(WriteFile(st, indexFile,
                           Written(indexContent(ReadDir(st), heading),
                                   "index_short" \in faults, 1)),
                 "index_short" \in faults)

\* updateIndex: [err, store].  It fails when the directory cannot be listed
\* (it is absent, or the environment fails the listing: "index") and when
\* the index file cannot be written: the environment fails the write before
\* anything is written ("index") or after the first line ("index_short"), or
\* the index file's name is a directory's.
updateIndex(dx, st, heading, faults) ==
    IF ~dx \/ "index" \in faults THEN [err |-> TRUE, store |-> st]
    ELSE Failing(WriteFile(st, indexFile,
                           Written(indexContent(ReadDir(st), heading),
                                   "index_short" \in faults, 1)),
                 "index_short" \in faults)

\* loadTemplateOrDefault: template.md when os.ReadFile gives it, and the
\* built-in template on any error of the read (main.go:75-78): the file is
\* absent or a directory, or the environment fails the read ("template").
loadTemplateOrDefault(st, default, faults) ==
    IF CanReadFile(st, templateFile) /\ "template" \notin faults
    THEN ReadFile(st, templateFile)
    ELSE default

\* strings.Replacer over one line: the scan goes from the left; where an old
\* string starts, the first pair that has it is applied and the scan goes on
\* after it, so what was put in is not scanned again.
RECURSIVE ReplaceLine(_, _)
ReplaceLine(line, pairs) ==
    LET startsAt(i, k) == line[i] = pairs[k][1][1] /\ HasPrefix(Drop(line, i - 1), pairs[k][1])
        hits == {i \in 1..Len(line) : \E k \in 1..Len(pairs) : startsAt(i, k)}
    IN  IF hits = {} THEN line
        ELSE LET i == Min(hits)
                 k == Min({j \in 1..Len(pairs) : startsAt(i, j)})
             IN  SubSeq(line, 1, i - 1) \o pairs[k][2]
                 \o ReplaceLine(Drop(line, i - 1 + Len(pairs[k][1])), pairs)

\* renderTemplate as it would be with one strings.ReplaceAll after another.
renderTemplate_Sequential(template, number, status, title, date) ==
    [i \in 1..Len(template) |->
        ReplaceAll(ReplaceAll(ReplaceAll(ReplaceAll(template[i], PhNumber, number),
                                         PhStatus, status),
                              PhTitle, title),
                   PhDate, date)]

renderTemplate(template, number, status, title, date) ==
    LET replacer == << <<PhNumber, number>>, <<PhStatus, status>>,
                       <<PhTitle, title>>, <<PhDate, date>> >>
    IN  [i \in 1..Len(template) |-> ReplaceLine(template[i], replacer)]

adrPrefixOf(number) == adrPrefix \o number \o Hyphen

\* adrExists; dx tells whether os.ReadDir lists the directory: it does not
\* when the directory is absent and when the environment fails the listing.
adrExists(dx, st, number) ==
    IF ~dx THEN FALSE
    ELSE \E i \in 1..Len(st) : HasPrefix(st[i].name, adrPrefixOf(number))

\* The loop of getNextADRNumber over the listing, maxNum carried along.
RECURSIVE maxNumOver(_, _)
maxNumOver(files, maxNum) ==
    IF files = <<>> THEN maxNum
    ELSE LET file == files[1]
             numStr == Split(TrimPrefix(file.name, adrPrefix), Hyphen)[1]
             num == Atoi(numStr)
         IN  IF ~IsRecord(file) THEN maxNumOver(Tail(files), maxNum)
             ELSE IF HasPrefix(file.name, adrPrefix) /\ num.ok /\ IntLess(maxNum, num.val)
                  THEN maxNumOver(Tail(files), num.val)
                  ELSE maxNumOver(Tail(files), maxNum)

\* getNextADRNumber; dx tells whether os.ReadDir lists the directory.
getNextADRNumber(dx, st) ==
    IF ~dx THEN <<"0", "0", "1">> ELSE Sprintf03d(IntSucc(maxNumOver(ReadDir(st), IntOf(0))))

\* The validation of promptForNumber (main.go:178-189).
validNumber(input) == Len(input) # 0 /\ Len(input) = 3 /\ Atoi(input).ok

(***************************************************************************)
(* Title and status inside a record's text.                                *)
(***************************************************************************)
IsHeadingWithTitle(line) == HasPrefix(line, HeadingMarker) /\ Len(SplitN2(line, ColonSpace)) = 2

getCurrentTitle(content) ==
    LET hs == {i \in 1..Len(content) : IsHeadingWithTitle(content[i])}
    IN  IF hs = {} THEN <<>> ELSE SplitN2(content[Min(hs)], ColonSpace)[2]

\* updateTitle as it would be if the heading were left alone.
updateTitle_Keep(content, newTitle) == content

updateTitle(content, newTitle) ==
    LET hs == {i \in 1..Len(content) : IsHeadingWithTitle(content[i])}
    IN  IF hs = {} THEN content
        ELSE [content EXCEPT ![Min(hs)] =
                 SplitN2(content[Min(hs)], ColonSpace)[1] \o ColonSpace \o newTitle]

getCurrentStatus(content) ==
    LET ss == {i \in 1..Len(content) : HasPrefix(content[i], StatusMarker)}
    IN  IF ss = {} THEN <<>> ELSE TrimSpace(TrimPrefix(content[Min(ss)], StatusMarker))

\* statusPass as it would be if old previous-status lines were kept.
statusPass_KeepPrevious(lines, i, newLines, statusFound, dateFound, newStatus, currentStatus) ==
    LET isStatus(k) == HasPrefix(lines[k], StatusMarker)
        isDate(k) == ~isStatus(k) /\ HasPrefix(lines[k], DateMarker)
        ss == {k \in i..Len(lines) : isStatus(k)}
        ds == {k \in i..Len(lines) : isDate(k)}
        appended(k) ==
            IF isStatus(k)
            THEN IF ~statusFound /\ k = Min(ss)
                 THEN <<StatusMarker \o newStatus \o TwoSpaces,
                        PreviousMarker \o currentStatus \o TwoSpaces>>
                 ELSE <<>>
            ELSE IF isDate(k)
            THEN IF ~dateFound /\ k = Min(ds) THEN <<lines[k]>> ELSE <<>>
            ELSE <<lines[k]>>
    IN  [newLines |-> newLines \o Concat([n \in 1..(Len(lines) - i + 1) |-> appended(i + n - 1)]),
         statusFound |-> statusFound \/ ss # {}]

\* The first loop of updateStatus (main.go:277-304), from line i on: what
\* each line makes the loop append.  The status line and the previous-status
\* line are appended at the first status line, every other status line and
\* every previous-status line is skipped, of the date lines the first is kept.
statusPass(lines, i, newLines, statusFound, dateFound, newStatus, currentStatus) ==
    LET isStatus(k) == HasPrefix(lines[k], StatusMarker)
        isPrevious(k) == ~isStatus(k) /\ HasPrefix(lines[k], PreviousMarker)
        isDate(k) == ~isStatus(k) /\ ~isPrevious(k) /\ HasPrefix(lines[k], DateMarker)
        ss == {k \in i..Len(lines) : isStatus(k)}
        ds == {k \in i..Len(lines) : isDate(k)}
        appended(k) ==
            IF isStatus(k)
            THEN IF ~statusFound /\ k = Min(ss)
                 THEN <<StatusMarker \o newStatus \o TwoSpaces,
                        PreviousMarker \o currentStatus \o TwoSpaces>>
                 ELSE <<>>
            ELSE IF isPrevious(k) THEN <<>>
            ELSE IF isDate(k)
            THEN IF ~dateFound /\ k = Min(ds) THEN <<lines[k]>> ELSE <<>>
            ELSE <<lines[k]>>
    IN  [newLines |-> newLines \o Concat([n \in 1..(Len(lines) - i + 1) |-> appended(i + n - 1)]),
         statusFound |-> statusFound \/ ss # {}]

\* The second loop (main.go:310-318): the status goes after a heading line.
afterHeadings(newLines, newStatus, currentStatus) ==
    Concat([k \in 1..Len(newLines) |->
               IF HasPrefix(newLines[k], HeadingMarker)
               THEN <<newLines[k], <<>>, StatusMarker \o newStatus,
                      PreviousMarker \o currentStatus>>
               ELSE <<newLines[k]>>])

\* updateStatus as it would be without the guard of main.go:268-270.
updateStatus_NoGuard(content, newStatus) ==
    LET currentStatus == getCurrentStatus(content)
        p == statusPass(content, 1, <<>>, FALSE, FALSE, newStatus, currentStatus)
        titleFound == \E i \in 1..Len(p.newLines) : HasPrefix(p.newLines[i], HeadingMarker)
    IN  IF p.statusFound THEN p.newLines
        ELSE IF titleFound THEN afterHeadings(p.newLines, newStatus, currentStatus)
        ELSE <<StatusMarker \o newStatus, PreviousMarker \o currentStatus, <<>>>> \o p.newLines

updateStatus(content, newStatus) ==
    LET currentStatus == getCurrentStatus(content)
        p == statusPass(content, 1, <<>>, FALSE, FALSE, newStatus, currentStatus)
        titleFound == \E i \in 1..Len(p.newLines) : HasPrefix(p.newLines[i], HeadingMarker)
    IN  IF currentStatus = newStatus THEN content
        ELSE IF p.statusFound THEN p.newLines
        ELSE IF titleFound THEN afterHeadings(p.newLines, newStatus, currentStatus)
        ELSE <<StatusMarker \o newStatus, PreviousMarker \o currentStatus, <<>>>> \o p.newLines

(***************************************************************************)
(* Inputs of the runs: the values the environment (operator, clock, files  *)
(* already in the store) supplies.                                         *)
(***************************************************************************)
\* "001"
N001 == <<"0","0","1">>
\* "002"
N002 == <<"0","0","2">>
\* "Alpha"
Alpha == <<"A","l","p","h","a">>
\* "\u00c9cole B"
Ecole == <<"U+00C9","c","o","l","e"," ","B">>
\* "CI/CD"
CICD == <<"C","I","/","C","D">>
\* "2024-03-20"
Today == <<"2","0","2","4","-","0","3","-","2","0">>
\* "# ADR 001: Alpha"
LineHeading == <<"#"," ","A","D","R"," ","0","0","1",":"," ","A","l","p","h","a">>
\* "**Status**: Accepted  "
LineAccepted == <<"*","*","S","t","a","t","u","s","*","*",":"," ","A","c","c","e","p","t","e",
    "d"," "," ">>
\* "**Status**: Proposed"
LineProposed == <<"*","*","S","t","a","t","u","s","*","*",":"," ","P","r","o","p","o","s","e",
    "d">>
\* "**Previous Status**: Rejected  "
LinePrevious == <<"*","*","P","r","e","v","i","o","u","s"," ","S","t","a","t","u","s","*","*",
    ":"," ","R","e","j","e","c","t","e","d"," "," ">>
\* "**Date**: 2024-03-20"
LineDate == <<"*","*","D","a","t","e","*","*",":"," ","2","0","2","4","-","0","3","-","2","0">>
\* "**Status**: "
LineEmptyStatus == <<"*","*","S","t","a","t","u","s","*","*",":"," ">>
\* "Test content"
LineText == <<"T","e","s","t"," ","c","o","n","t","e","n","t">>
\* "adr-001-a.md"
Adr001A == <<"a","d","r","-","0","0","1","-","a",".","m","d">>
\* "adr-003-b.md"
Adr003B == <<"a","d","r","-","0","0","3","-","b",".","m","d">>
\* "adr-x-c.md"
AdrXC == <<"a","d","r","-","x","-","c",".","m","d">>
\* "adr-010-d.txt"
Adr010Txt == <<"a","d","r","-","0","1","0","-","d",".","t","x","t">>
\* "adr-020-e.md"
Adr020Dir == <<"a","d","r","-","0","2","0","-","e",".","m","d">>
\* "adr-12-f.md"
Adr12F == <<"a","d","r","-","1","2","-","f",".","m","d">>
\* "004-first-decision.md"
Rec004 == <<"0","0","4","-","f","i","r","s","t","-","d","e","c","i","s","i","o","n",".","m",
    "d">>
\* "# Test Index"
Stale == <<"#"," ","T","e","s","t"," ","I","n","d","e","x">>
\* "004"
Four == <<"0","0","4">>
\* "- [001 A](adr-001-a.md)"
Entry001A == <<"-"," ","[","0","0","1"," ","A","]","(","a","d","r","-","0","0","1","-","a",".",
    "m","d",")">>
\* "- [003 B](adr-003-b.md)"
Entry003B == <<"-"," ","[","0","0","3"," ","B","]","(","a","d","r","-","0","0","3","-","b",".",
    "m","d",")">>
\* "adr-001-alpha.md"
Adr001Alpha == <<"a","d","r","-","0","0","1","-","a","l","p","h","a",".","m","d">>
\* "adr-002-existing.md"
Adr002Existing == <<"a","d","r","-","0","0","2","-","e","x","i","s","t","i","n","g",".","m",
    "d">>
\* "adr-001-test.md"
Adr001Test == <<"a","d","r","-","0","0","1","-","t","e","s","t",".","m","d">>
\* "adr-002-drafts", a subdirectory
Adr002Dir == <<"a","d","r","-","0","0","2","-","d","r","a","f","t","s">>
\* "adr-999-z.md"
Adr999Z == <<"a","d","r","-","9","9","9","-","z",".","m","d">>
\* "adr-001-\u00e9cole-b.md", a subdirectory
Adr001EcoleDir == <<"a","d","r","-","0","0","1","-","U+00E9","c","o","l","e","-","b",".","m","d">>
\* "adr-005-\u00e9's.md"
Adr005E == <<"a","d","r","-","0","0","5","-","U+00E9","'","s",".","m","d">>
\* "adr-9223372036854775808-g.md": the number is one above the largest int
AdrBigG == adrPrefix \o MinInt64 \o <<"-","g",".","m","d">>
\* "**Status**: Accepted" and a form feed
LineAcceptedFF == <<"*","*","S","t","a","t","u","s","*","*",":"," ","A","c","c","e","p","t",
    "e","d","\f">>
\* "adr-001-ci", a subdirectory
Adr001CiDir == <<"a","d","r","-","0","0","1","-","c","i">>
\* "adr-001-ci/cd.md"
Adr001CiCd == <<"a","d","r","-","0","0","1","-","c","i","/","c","d",".","m","d">>
\* "archive.md"
ArchiveDir == <<"a","r","c","h","i","v","e",".","m","d">>
\* "notes.txt"
NotesTxt == <<"n","o","t","e","s",".","t","x","t">>
\* "# ADR 002: Existing"
LineHeading002 == <<"#"," ","A","D","R"," ","0","0","2",":"," ","E","x","i","s","t","i","n",
    "g">>
\* "**Status**: Accepted"
LineAcceptedBare == <<"*","*","S","t","a","t","u","s","*","*",":"," ","A","c","c","e","p","t",
    "e","d">>

\* The statuses offered as inputs: the first MaxStatus entries of the menu.
Statuses == {StatusMenu[i] : i \in 1..MaxStatus}

NoInvocation == [fe |-> "none"]
NoStore == [dirExists |-> FALSE, store |-> <<>>]
NoResult == [op |-> "none"]

(***************************************************************************)
(* The two front ends.  A run of the flag front end asks nothing and is one *)
(* step, from its flags to its last message.  A run of main.go waits for    *)
(* the operator at its title prompt (main.go:356, 386) and is two steps: to *)
(* the prompt, and from the title to the last message.  Nothing holds       *)
(* docs/adr while it waits: other runs start and end between the two.       *)
(* `faults` names the file-system calls that fail during a run (the         *)
(* environment's choice).                                                   *)
(***************************************************************************)
Numbers == {N001, N002}
Titles == {Alpha, Ecole, CICD}
\* The statuses given to the front ends.
GivenStatuses == {Accepted, Superseded}
\* The file-system calls of a run that can fail: ensureDir ("mkdir"), the
\* listing inside adrExists ("exists"), the listing that finds the file to
\* update ("list"), the two reads of that file ("read", "reread"), os.Remove
\* ("remove"), the read of template.md ("template"), writeFile, which fails
\* before anything is written ("write") or after the file was cut to nothing
\* ("truncate"), and updateIndex, which fails before anything is written
\* ("index") or after the first line of the index ("index_short").
FaultKinds == {"mkdir", "exists", "list", "read", "reread", "remove", "template", "write",
               "truncate", "index", "index_short"}

\* The calls main.go makes before its title prompt.
BeforePrompt == {"mkdir", "exists", "list", "read"}

\* The ways they fail in one run.  A failed mkdir, listing, read or write ends
\* the run.  After a failed existence check (main.go:135-137, the answer is
\* "no record"), a failed read of template.md (main.go:75-78, the built-in
\* template is taken) or a failed remove (main.go:420-424, a warning) the run
\* goes on to writeFile and updateIndex, either of which can fail in either
\* way; the template is read for a new record and the old file removed for
\* an update, so these two do not meet.
FaultSets ==
    {{"mkdir"}, {"list"}, {"read"}, {"reread"}}
    \cup {quiet \cup ending :
            quiet \in {{}, {"exists"}, {"remove"}, {"template"}, {"exists", "template"}},
            ending \in {{}, {"write"}, {"truncate"}, {"index"}, {"index_short"}}}

recordFilename(number, title) == adrPrefix \o number \o Hyphen \o toKebabCase(title) \o mdSuffix

\* main.go:365-376: the directory is listed, which fails when dx is FALSE,
\* and the first entry of the listing with the prefix is taken: [err, name].
findByPrefix(dx, st, number) ==
    LET files == ReadDir(st)
        hits == {i \in 1..Len(files) : HasPrefix(files[i].name, adrPrefixOf(number))}
    IN  IF ~dx THEN [err |-> TRUE, name |-> <<>>]
        ELSE [err |-> FALSE, name |-> IF hits = {} THEN <<>> ELSE files[Min(hits)].name]

\* strings.ReplaceAll(content, old, new) on a text, where new may hold line
\* feeds (it is a text) and old holds none.
RECURSIVE catJoin(_, _)
catJoin(pieces, new) ==
    IF Len(pieces) = 1 THEN Text(pieces[1])
    ELSE Cat(Cat(Text(pieces[1]), new), catJoin(Tail(pieces), new))

replaceAllText(content, old, new) ==
    Concat([k \in 1..Len(content) |-> catJoin(Split(content[k], old), new)])

\* The update of the flag front end: every "**Status**: " becomes
\* "**Status**: <status>\n**Previous Status**: ".
flagUpdate(content, status) ==
    replaceAllText(content, StatusMarker, <<StatusMarker \o status, PreviousMarker>>)

\* The file-system call whose failure a report tells of, whether the
\* environment or the store made it fail.
failedCall(report) ==
    CASE report = "mkdir_error" -> {"mkdir"}
      [] report = "readdir_error" -> {"list"}
      [] report = "read_error" -> {"read"}
      [] report = "write_error" -> {"write"}
      [] report = "index_error" -> {"index"}
      [] OTHER -> {}

\* What a run tells of itself.  `injected` are the calls the environment made
\* fail, `failed` those and the call the store made fail.
Report(fe, number, status, title, isNew, oldFilename, filename, report, warn, injected) ==
    [fe |-> fe, number |-> number, status |-> status, title |-> title, isNew |-> isNew,
     oldFilename |-> oldFilename, filename |-> filename, report |-> report, warn |-> warn,
     injected |-> injected, failed |-> injected \cup failedCall(report)]

\* What a run leaves: the directory, the store and the report; and `calls`,
\* the fallible file-system calls it made.
Outcome(dx, st, rep, calls) == [dirExists |-> dx, store |-> st, last |-> rep, calls |-> calls]

\* main.go:392-398: the file name of an updated record.
chooseFilename(number, title, currentTitle, oldFilename) ==
    IF title # currentTitle THEN recordFilename(number, title) ELSE oldFilename

\* removeOld as it would be if the old file were never removed.
removeOld_Never(st, oldFilename, filename, faults) == [store |-> st, warn |-> FALSE]

\* main.go:418-424: after a change of file name the old file is removed; a
\* failure is a warning.
removeOld(st, oldFilename, filename, faults) ==
    IF filename # oldFilename
    THEN IF "remove" \in faults THEN [store |-> st, warn |-> TRUE]
         ELSE [store |-> Remove(st, oldFilename), warn |-> FALSE]
    ELSE [store |-> st, warn |-> FALSE]

\* writeFile by the environment's choice: it fails before anything is written
\* or after the file was cut to nothing; otherwise the store decides.
writeFile(st, filename, content, faults) ==
    IF "write" \in faults THEN [err |-> TRUE, store |-> st]
    ELSE Failing(WriteFile(st, filename, Written(content, "truncate" \in faults, 0)),
                 "truncate" \in faults)

\* What a run reports of its index rebuild.
indexResult(indexed) ==
    [result |-> IF indexed.err THEN "index_error" ELSE "ok", store |-> indexed.store]

\* persist as it would be if the index were rebuilt after a failed write too.
afterWrite_IndexAnyway(written, heading, faults) ==
    IF written.err
    THEN [result |-> "write_error",
          store |-> updateIndex(TRUE, written.store, heading, {}).store]
    ELSE indexResult(updateIndex(TRUE, written.store, heading, faults))
persist_IndexAnyway(st, filename, content, heading, faults) ==
    afterWrite_IndexAnyway(writeFile(st, filename, content, faults), heading, faults)

\* persist as it would be if a failed index rebuild undid the write.
indexResult_Rollback(st, indexed) ==
    IF indexed.err THEN [result |-> "index_error", store |-> st]
    ELSE [result |-> "ok", store |-> indexed.store]
afterWrite_Rollback(st, written, heading, faults) ==
    IF written.err THEN [result |-> "write_error", store |-> written.store]
    ELSE indexResult_Rollback(st, updateIndex(TRUE, written.store, heading, faults))
persist_Rollback(st, filename, content, heading, faults) ==
    afterWrite_Rollback(st, writeFile(st, filename, content, faults), heading, faults)

\* main.go:427-437: the content is written, then the index rebuilt; either
\* failure ends the run with its own message.
afterWrite(written, heading, faults) ==
    IF written.err THEN [result |-> "write_error", store |-> written.store]
    ELSE indexResult(updateIndex(TRUE, written.store, heading, faults))
persist(st, filename, content, heading, faults) ==
    afterWrite(writeFile(st, filename, content, faults), heading, faults)

\* How a run ends: with the directory and the store it leaves, its report
\* and the fallible calls it made; the report names those that failed.
ended(fe, dx, st, number, status, title, isNew, old, new, report, warn, faults, calls) ==
    Outcome(dx, st,
            Report(fe, number, status, title, isNew, old, new, report, warn, faults \cap calls),
            calls)

\* main.go:427-447 and part_000:213-229: the messages after the write and the
\* index rebuild.
finish(fe, number, status, title, isNew, old, new, warn, faults, calls, done) ==
    IF done.result = "write_error"
    THEN ended(fe, TRUE, done.store, number, status, title, isNew, old, new, "write_error",
               warn, faults, calls)
    ELSE ended(fe, TRUE, done.store, number, status, title, isNew, old, new,
               IF done.result = "index_error" THEN "index_error"
               ELSE IF isNew THEN "created"
               ELSE IF new # old THEN "renamed" ELSE "updated",
               warn, faults, calls \cup {"index", "index_short"})

\* The read of template.md counts among the calls that can be made to fail
\* when the store would let it succeed.
templateCalls(st) == IF CanReadFile(st, templateFile) THEN {"template"} ELSE {}

\* main.go:355-360 and 401-407: a new record, once the title is given.
interactiveCreate(st, number, status, title, faults, calls) ==
    finish("interactive", number, status, title, TRUE, <<>>, recordFilename(number, title),
           FALSE, faults, calls \cup templateCalls(st) \cup {"write", "truncate"},
           persist(st, recordFilename(number, title),
                   renderTemplate(loadTemplateOrDefault(st, DefaultTemplate, faults),
                                  number, status, title, Today),
                   IndexHeading, faults))

\* main.go:418-437: the old file of a renamed record is removed, then the
\* content is written.
interactiveWrite(number, status, title, old, new, content, removed, faults, calls) ==
    finish("interactive", number, status, title, FALSE, old, new, removed.warn, faults,
           calls \cup (IF new # old THEN {"remove"} ELSE {}) \cup {"write", "truncate"},
           persist(removed.store, new, content, IndexHeading, faults))

\* main.go:392-425: the file name and the content of an updated record.
interactiveMerge(st, number, status, title, old, new, faults, calls) ==
    interactiveWrite(number, status, title, old, new,
                     updateTitle(updateStatus(ReadFile(st, old), status), title),
                     removeOld(st, old, new, faults), faults, calls)

\* What a run of main.go holds while it waits at its title prompt: the
\* number and the status it was given, the branch it took, the file it found
\* and the title it read from it (an update), whether the directory was
\* there when it started, the calls it made and those of them the
\* environment made fail.
AtPrompt(number, status, isNew, oldFilename, currentTitle, hadDir, injected, calls) ==
    [number |-> number, status |-> status, isNew |-> isNew, oldFilename |-> oldFilename,
     currentTitle |-> currentTitle, hadDir |-> hadDir, injected |-> injected, calls |-> calls]

\* The run comes to its title prompt, or it ends before.
Waits(w) == [waits |-> TRUE, run |-> w]
Ends(o) == [waits |-> FALSE, end |-> o]

\* main.go:361-386: an update.  The file is found and read, and the title in
\* its heading shown at the prompt.
interactiveFind(dx, st, number, status, faults, calls, found) ==
    IF found.err
    THEN Ends(ended("interactive", TRUE, st, number, status, <<>>, FALSE, <<>>, <<>>,
                    "readdir_error", FALSE, faults, calls \cup {"list"}))
    ELSE IF ~CanReadFile(st, found.name) \/ "read" \in faults
    THEN Ends(ended("interactive", TRUE, st, number, status, <<>>, FALSE, found.name, <<>>,
                    "read_error", FALSE, faults, calls \cup {"list", "read"}))
    ELSE Waits(AtPrompt(number, status, FALSE, found.name,
                        getCurrentTitle(ReadFile(st, found.name)), dx,
                        faults \cap (calls \cup {"list", "read"}),
                        calls \cup {"list", "read"}))

\* main.go:346-360: after ensureDir, the branch on adrExists; `calls` are the
\* calls made so far.
interactiveBranch(dx, st, number, status, faults, calls) ==
    IF adrExists("exists" \notin faults, st, number)
    THEN interactiveFind(dx, st, number, status, faults, calls,
                         findByPrefix("list" \notin faults, st, number))
    ELSE Waits(AtPrompt(number, status, TRUE, <<>>, <<>>, dx, faults \cap calls, calls))

\* main of main.go up to its title prompt (main.go:346-386), after a number
\* and a status were given.
interactiveBegin(dx, st, number, status, faults) ==
    IF ~dx /\ "mkdir" \in faults
    THEN Ends(ended("interactive", dx, st, number, status, <<>>, FALSE, <<>>, <<>>,
                    "mkdir_error", FALSE, faults, {"mkdir"}))
    ELSE interactiveBranch(dx, st, number, status, faults,
                           IF dx THEN {"exists"} ELSE {"mkdir", "exists"})

\* main of main.go from its title prompt on (main.go:356-447), in the store as
\* it is by then; w is what the run holds from before the prompt and
\* `prompt` what promptForTitle returns: [err, title].  The file found
\* before the prompt is read again, whatever became of it.
interactiveResume(st, w, prompt, faults) ==
    IF prompt.err
    THEN ended("interactive", TRUE, st, w.number, w.status, <<>>, w.isNew, w.oldFilename,
               <<>>, "prompt_failed", FALSE, faults, w.calls)
    ELSE IF w.isNew
    THEN interactiveCreate(st, w.number, w.status, prompt.title, faults, w.calls)
    ELSE IF ~CanReadFile(st, w.oldFilename) \/ "reread" \in faults
    THEN ended("interactive", TRUE, st, w.number, w.status, prompt.title, FALSE,
               w.oldFilename,
               chooseFilename(w.number, prompt.title, w.currentTitle, w.oldFilename),
               "read_error", FALSE, faults, w.calls \cup {"reread"})
    ELSE interactiveMerge(st, w.number, w.status, prompt.title, w.oldFilename,
                          chooseFilename(w.number, prompt.title, w.currentTitle,
                                         w.oldFilename),
                          faults, w.calls \cup {"reread"})

\* A run of main.go during which no other run takes place, begun as b.
interactiveThrough(st, b, prompt, faults) ==
    IF b.waits THEN interactiveResume(st, b.run, prompt, faults) ELSE b.end

\* main of main.go, after a number and a status were given, when no other
\* run takes place while it waits for the title.
interactiveMain(dx, st, number, status, prompt, faults) ==
    interactiveThrough(st, interactiveBegin(dx, st, number, status, faults), prompt, faults)

\* What promptForTitle can return: an error, or a title that is not empty,
\* the default it showed or another.
promptForTitle(defaultTitle) ==
    {[err |-> TRUE, title |-> <<>>]}
    \cup {[err |-> FALSE, title |-> t] : t \in (Titles \cup {defaultTitle}) \ {<<>>}}

\* missingTitleExit as it would be if the directory were made first, as
\* main.go does before it asks for the title.
missingTitleExit_MkdirFirst(dx, st, rep, calls) == Outcome(TRUE, st, rep, calls)

\* The flag front end's "--title flag is required" exit: it comes before
\* ensureDir, nothing is touched.
missingTitleExit(dx, st, rep, calls) == Outcome(dx, st, rep, calls)

\* part_000:170-175 and 195-203: a new record.  The directory is made,
\* the template rendered.
flagCreate(dx, st, number, status, title, faults, calls) ==
    IF title = <<>>
    THEN missingTitleExit(dx, st,
                          Report("flag", number, status, title, TRUE, <<>>, <<>>,
                                 "missing_title", FALSE, faults \cap calls),
                          calls)
    ELSE IF ~dx /\ "mkdir" \in faults
    THEN ended("flag", dx, st, number, status, title, TRUE, <<>>, <<>>, "mkdir_error",
               FALSE, faults, {"mkdir"})
    ELSE finish("flag", number, status, title, TRUE, <<>>, recordFilename(number, title),
                FALSE, faults,
                (IF dx THEN calls ELSE {"mkdir"}) \cup templateCalls(st)
                    \cup {"write", "truncate"},
                persist(st, recordFilename(number, title),
                        renderTemplate(loadTemplateOrDefault(st, FlagDefaultTemplate, faults),
                                       number, status, title, Today),
                        FlagIndexHeading, faults))

\* part_000:176-211: an update.  The file is found and read and its status
\* replaced; the file keeps its name.
flagUpdateRecord(st, number, status, title, faults, found) ==
    IF found.err
    THEN ended("flag", TRUE, st, number, status, title, FALSE, <<>>, <<>>, "readdir_error",
               FALSE, faults, {"exists", "list"})
    ELSE IF ~CanReadFile(st, found.name) \/ "read" \in faults
    THEN ended("flag", TRUE, st, number, status, title, FALSE, found.name, found.name,
               "read_error", FALSE, faults, {"exists", "list", "read"})
    ELSE finish("flag", number, status, title, FALSE, found.name, found.name, FALSE, faults,
                {"exists", "list", "read", "write", "truncate"},
                persist(st, found.name, flagUpdate(ReadFile(st, found.name), status),
                        FlagIndexHeading, faults))

\* main of the flag front end.  adrExists lists the directory before
\* ensureDir: an absent directory holds no record.
flagMain(dx, st, number, status, title, faults) ==
    IF number = <<>> \/ status = <<>>
    THEN ended("flag", dx, st, number, status, title, FALSE, <<>>, <<>>, "usage", FALSE,
               faults, {})
    ELSE IF adrExists(dx /\ "exists" \notin faults, st, number)
    THEN flagUpdateRecord(st, number, status, title, faults,
                          findByPrefix("list" \notin faults, st, number))
    ELSE flagCreate(dx, st, number, status, title, faults,
                    IF dx THEN {"exists"} ELSE {})

\* The template an operator put in the store: the head of the built-in one.
CustomTemplate == SubSeq(DefaultTemplate, 1, 4) \o <<LineText, <<>>>>

\* The stores a behaviour starts from: no directory; an empty directory; a
\* store with a record made from a custom template, its index, a
\* subdirectory and a file that is no record; the records of TestMainFunction
\* and TestMainWithUpdateError, with no index yet; the store main.go leaves
\* when it creates record 001 in an empty directory; a store where
\* directories have the names of the index file and of a record file; a
\* store where a directory has the name the slug of "CI/CD" leads through.
InitStores ==
    {[dirExists |-> FALSE, store |-> <<>>],
     [dirExists |-> TRUE, store |-> <<>>],
     [dirExists |-> TRUE,
      store |-> <<File(templateFile, CustomTemplate),
                  SubDir(ArchiveDir),
                  File(Adr001Alpha, renderTemplate(CustomTemplate, N001, Accepted, Alpha, Today)),
                  File(NotesTxt, Text(LineText)),
                  File(indexFile, indexContent(<<File(Adr001Alpha, <<>>)>>, IndexHeading))>>],
     [dirExists |-> TRUE,
      store |-> <<File(Adr002Existing,
                       <<LineHeading002, <<>>, LineAcceptedBare, <<>>, LineText>>),
                  File(Adr001Test, Text(LineText))>>],
     [dirExists |-> TRUE,
      store |-> interactiveMain(TRUE, <<>>, N001, Accepted,
                                [err |-> FALSE, title |-> Alpha], {}).store],
     [dirExists |-> TRUE,
      store |-> <<File(Adr001Alpha, renderTemplate(DefaultTemplate, N001, Accepted, Alpha, Today)),
                  SubDir(Adr001EcoleDir),
                  SubDir(indexFile)>>],
     [dirExists |-> TRUE,
      store |-> <<SubDir(Adr001CiDir),
                  File(Adr001Alpha, <<LineHeading, <<>>, LineAccepted, LineDate>>)>>]}

Init ==
    /\ \E s \in InitStores : dirExists = s.dirExists /\ store = s.store
    /\ pre = NoStore /\ last = NoInvocation
    /\ ops = 0 /\ waiting = EmptyBag
    /\ body = << <<>> >> /\ steps = <<>> /\ out = NoResult

\* The fallible calls a run of the flag front end on `number` can come to
\* make, told from the directory and the names in it alone: no mkdir of a
\* directory that is there, no listing or read of a file to update unless a
\* name has the prefix, no read of a template that is not there.
CanCall(dx, st, number) ==
    {"exists", "write", "truncate", "index", "index_short"}
    \cup (IF dx THEN {} ELSE {"mkdir"})
    \cup (IF adrExists(TRUE, st, number) THEN {"list", "read"} ELSE {})
    \cup templateCalls(st)

\* The same of a run of main.go before its title prompt.
CanCallBefore(dx, st, number) ==
    {"exists"}
    \cup (IF dx THEN {} ELSE {"mkdir"})
    \cup (IF adrExists(TRUE, st, number) THEN {"list", "read"} ELSE {})

\* And of the run w after it, given `title`: no os.Remove unless the title
\* is another than the one the run read.
CanCallAfter(st, w, title) ==
    w.injected \cup {"write", "truncate", "index", "index_short"}
    \cup (IF w.isNew THEN templateCalls(st)
          ELSE {"reread"} \cup (IF title # w.currentTitle THEN {"remove"} ELSE {}))

\* One run of main with outcome `r`, from start to end in one step: a run of
\* the flag front end, or a run of main.go that ends before its title
\* prompt.  The calls that fail are among the calls it makes.  It leaves
\* `now` in out.
RunTo(r, faults, now) ==
    /\ last = NoInvocation
    /\ faults \subseteq r.calls
    /\ ops' = ops + 1
    /\ pre' = [dirExists |-> dirExists, store |-> store]
    /\ dirExists' = r.dirExists
    /\ store' = r.store
    /\ last' = r.last
    /\ out' = now
    /\ UNCHANGED <<waiting, body, steps>>

\* A run of main.go begun as b: it comes to its title prompt and waits
\* there, the directory made by ensureDir, or it ends before the prompt.
BeginTo(b, faults, now) ==
    IF b.waits
    THEN /\ last = NoInvocation
         /\ BagCardinality(waiting) < MaxWaiting
         /\ faults \subseteq b.run.calls
         /\ ops' = ops + 1
         /\ dirExists' = TRUE
         /\ waiting' = waiting (+) SetToBag({b.run})
         /\ UNCHANGED <<store, pre, last, body, steps, out>>
    ELSE RunTo(b.end, faults, now)

\* The run w of main.go is given its title, or its prompt is ended, and it
\* runs to its end with outcome `r`, in the store as the runs since left it.
ResumeTo(w, r, faults, now) ==
    /\ last = NoInvocation
    /\ BagIn(w, waiting)
    /\ faults \subseteq r.calls
    /\ pre' = [dirExists |-> w.hadDir, store |-> store]
    /\ dirExists' = r.dirExists
    /\ store' = r.store
    /\ last' = r.last
    /\ out' = now
    /\ waiting' = waiting (-) SetToBag({w})
    /\ UNCHANGED <<ops, body, steps>>

\* A run of Spec starts while fewer than MaxOps have started, and MaxBetween
\* more while a run of main.go waits at its prompt.
CanStart ==
    /\ last = NoInvocation
    /\ ops < MaxOps + (IF waiting = EmptyBag THEN 0 ELSE MaxBetween)

\* A run of Spec that is one step; its outcome o is worked out once.
Run(o, faults) ==
    /\ CanStart
    /\ \E r \in {o} : RunTo(r, faults, out)

\* A run of main.go in which the prompt for the number or for the status
\* fails: "Prompt failed", before anything is touched.
InteractivePromptFailed ==
    Run(Outcome(dirExists, store,
                Report("interactive", <<>>, <<>>, <<>>, FALSE, <<>>, <<>>, "prompt_failed",
                       FALSE, {}),
                {}),
        {})

\* A run of main.go up to its title prompt.  promptForNumber accepts a valid
\* number, promptForStatus gives an entry of the menu.
InteractiveMain(number, status, faults) ==
    /\ CanStart
    /\ validNumber(number)
    /\ \E i \in 1..Len(StatusMenu) : StatusMenu[i] = status
    /\ faults \subseteq CanCallBefore(dirExists, store, number)
    /\ \E b \in {interactiveBegin(dirExists, store, number, status, faults)} :
          BeginTo(b, faults, out)

\* The run w of main.go from its title prompt to its end; `faults` are the
\* calls that fail in the whole of the run.
InteractiveTitle(w, prompt, faults) ==
    /\ last = NoInvocation /\ BagIn(w, waiting)
    /\ faults \cap BeforePrompt = w.injected
    /\ faults \subseteq CanCallAfter(store, w, prompt.title)
    /\ \E r \in {interactiveResume(store, w, prompt, faults)} :
          ResumeTo(w, r, faults, out)

\* A run of the flag front end with --number, --status and --title.
FlagMain(number, status, title, faults) ==
    /\ CanStart
    /\ faults \subseteq CanCall(dirExists, store, number)
    /\ Run(flagMain(dirExists, store, number, status, title, faults), faults)

\* A run of the flag front end without --number or without --status.
FlagUsage(number, status, title) ==
    /\ number = <<>> \/ status = <<>>
    /\ Run(flagMain(dirExists, store, number, status, title, {}), {})

\* main returns and the process ends: what it leaves to the next run is the
\* directory.
Exit ==
    /\ last # NoInvocation
    /\ last' = NoInvocation
    /\ pre' = NoStore
    /\ UNCHANGED <<dirExists, store, ops, waiting, body, steps, out>>

\* The failures of a run of Spec: a run that is the only one to have started
\* meets any of FaultSets, a run with `others` before or beside it none, or
\* that of its write or of its index rebuild.
RunFaultSets(others) ==
    IF others = 0 THEN FaultSets ELSE {{}, {"write"}, {"index"}}

\* A run starts when no run is at its last message and the bounds allow it;
\* the inputs are drawn once that is so.
Next ==
    \/ Exit
    \/ InteractivePromptFailed
    \/ /\ CanStart
       /\ \E number \in Numbers, status \in GivenStatuses,
             faults \in {f \in RunFaultSets(ops) : f \subseteq BeforePrompt} :
             InteractiveMain(number, status, faults)
    \/ /\ last = NoInvocation /\ waiting # EmptyBag
       /\ \E w \in BagToSet(waiting) :
             \E prompt \in promptForTitle(w.currentTitle), faults \in RunFaultSets(ops - 1) :
                InteractiveTitle(w, prompt, faults)
    \/ /\ CanStart
       /\ \E number \in Numbers, status \in GivenStatuses, title \in Titles \cup {<<>>},
             faults \in RunFaultSets(ops) :
             FlagMain(number, status, title, faults)
    \/ /\ CanStart
       /\ \E number \in {N001, <<>>}, status \in {Accepted, <<>>} :
             FlagUsage(number, status, <<>>)

Spec == Init /\ [][Next]_vars

(***************************************************************************)
(* Sequences of runs, of either front end, on a store that starts empty,   *)
(* with the built-in templates.                                            *)
(***************************************************************************)
\* The titles given to the runs of a sequence.
SeqTitles == {Alpha, Ecole}

\* The failures a run that reports success can have met.
QuietFaultSets == {f \in FaultSets : f \subseteq {"exists", "remove", "template"}}

\* The failures that decide which record files a run leaves.
FileFaultSets == {f \in FaultSets : f \subseteq {"exists", "remove", "write", "truncate"}}

\* The status given to a run: each run of a sequence gives the next status
\* of the menu, so every update changes the status.
SeqStatus == StatusMenu[ops + 1]

\* Runs that all reported success so far.
Succeeded == [op |-> "seq"]

\* Runs so far, failed ones among them; `kept` tells whether in each of them
\* the existence check listed the directory, no deletion of an old file
\* failed and no record for its number was made while it waited for the
\* title of a new one.
Kept(kept) == [op |-> "files", kept |-> kept]

\* The stores the runs on the first number start from: no directory, an
\* empty one, and the test records, one file for each number.
FileStores ==
    {s \in InitStores : s.store = <<>> \/ Adr002Existing \in Names(s.store)}

InitSeq ==
    /\ dirExists \in BOOLEAN /\ store = <<>>
    /\ pre = NoStore /\ last = NoInvocation
    /\ ops = 0 /\ waiting = EmptyBag
    /\ body = << <<>> >> /\ steps = <<>> /\ out = Succeeded

InitFiles ==
    /\ \E s \in FileStores : dirExists = s.dirExists /\ store = s.store
    /\ pre = NoStore /\ last = NoInvocation
    /\ ops = 0 /\ waiting = EmptyBag
    /\ body = << <<>> >> /\ steps = <<>> /\ out = Kept(TRUE)

\* A run of main.go, one of at most MaxRuns, comes to its title prompt.
SeqInteractive(number, status, faults) ==
    /\ ops < MaxRuns /\ last = NoInvocation /\ out = Succeeded
    /\ faults \subseteq CanCallBefore(dirExists, store, number)
    /\ \E b \in {interactiveBegin(dirExists, store, number, status, faults)} :
          b.waits /\ BeginTo(b, faults, out)

\* It is given its title and reports success.
SeqTitle(w, prompt, faults) ==
    /\ last = NoInvocation /\ out = Succeeded
    /\ prompt.title \in SeqTitles \cup {w.currentTitle}
    /\ faults \cap BeforePrompt = w.injected
    /\ faults \subseteq CanCallAfter(store, w, prompt.title)
    /\ \E r \in {interactiveResume(store, w, prompt, faults)} :
          r.last.report \in {"created", "updated", "renamed"} /\ ResumeTo(w, r, faults, out)

\* A run of the flag front end that reports success.
SeqFlag(number, status, title, faults) ==
    /\ ops < MaxRuns /\ last = NoInvocation /\ out = Succeeded
    /\ faults \subseteq CanCall(dirExists, store, number)
    /\ \E r \in {flagMain(dirExists, store, number, status, title, faults)} :
          r.last.report \in {"created", "updated", "renamed"} /\ RunTo(r, faults, out)

\* A run of the sequence ends and leaves the directory to those that start
\* or wait.
SeqExit == out = Succeeded /\ (ops < MaxRuns \/ waiting # EmptyBag) /\ Exit

NextSeq ==
    \/ SeqExit
    \/ /\ ops < MaxRuns /\ last = NoInvocation
       /\ \E number \in Numbers, faults \in {f \in QuietFaultSets : f \subseteq BeforePrompt} :
             SeqInteractive(number, SeqStatus, faults)
    \/ /\ last = NoInvocation /\ waiting # EmptyBag
       /\ \E w \in BagToSet(waiting) :
             \E prompt \in promptForTitle(w.currentTitle), faults \in QuietFaultSets :
                SeqTitle(w, prompt, faults)
    \/ /\ ops < MaxRuns /\ last = NoInvocation
       /\ \E number \in Numbers, title \in SeqTitles \cup {<<>>}, faults \in QuietFaultSets :
             SeqFlag(number, SeqStatus, title, faults)

SpecSeq == InitSeq /\ [][NextSeq]_vars

\* What the runs so far amount to after the run of report `rep`, which found
\* the store st when it came to its writes.
KeptAfter(rep, st) ==
    Kept(/\ out.kept
         /\ rep.failed \cap {"exists", "remove"} = {}
         /\ ~(rep.isNew /\ adrExists(TRUE, st, rep.number)))

\* A run of main.go, one of at most MaxRuns, comes to its title prompt or
\* fails before.
FilesInteractive(number, status, faults) ==
    /\ ops < MaxRuns /\ last = NoInvocation /\ out.op = "files"
    /\ faults \subseteq CanCallBefore(dirExists, store, number)
    /\ \E b \in {interactiveBegin(dirExists, store, number, status, faults)} :
          BeginTo(b, faults, IF b.waits THEN out ELSE KeptAfter(b.end.last, store))

\* It is given its title, or its prompt is ended, and it runs to its end,
\* failed or not.
FilesTitle(w, prompt, faults) ==
    /\ last = NoInvocation /\ out.op = "files"
    /\ faults \cap BeforePrompt = w.injected
    /\ faults \subseteq CanCallAfter(store, w, prompt.title)
    /\ \E r \in {interactiveResume(store, w, prompt, faults)} :
          ResumeTo(w, r, faults, KeptAfter(r.last, store))

\* A run of the flag front end, failed or not.
FilesFlag(number, status, title, faults) ==
    /\ ops < MaxRuns /\ last = NoInvocation /\ out.op = "files"
    /\ faults \subseteq CanCall(dirExists, store, number)
    /\ \E r \in {flagMain(dirExists, store, number, status, title, faults)} :
          RunTo(r, faults, KeptAfter(r.last, store))

FilesExit == out.op = "files" /\ (ops < MaxRuns \/ waiting # EmptyBag) /\ Exit

NextFiles ==
    \/ FilesExit
    \/ /\ ops < MaxRuns /\ last = NoInvocation
       /\ \E faults \in {f \in FileFaultSets : f \subseteq BeforePrompt} :
             FilesInteractive(N001, Accepted, faults)
    \/ /\ last = NoInvocation /\ waiting # EmptyBag
       /\ \E w \in BagToSet(waiting) :
             \E prompt \in promptForTitle(w.currentTitle), faults \in FileFaultSets :
                FilesTitle(w, prompt, faults)
    \/ /\ ops < MaxRuns /\ last = NoInvocation
       /\ \E title \in Titles, faults \in FileFaultSets :
             FilesFlag(N001, Accepted, title, faults)

SpecFiles == InitFiles /\ [][NextFiles]_vars

(***************************************************************************)
(* Status merge runs: updateStatus applied to a body, again and again.     *)
(***************************************************************************)
MergeLines ==
    {LineHeading, LineAccepted, LineProposed, LineEmptyStatus, LinePrevious, LineDate, LineText,
     LineAcceptedFF, <<>>}
Bodies == UNION {[1..n -> MergeLines] : n \in 1..MaxLines}

InitMerge ==
    /\ body \in Bodies
    /\ steps = <<>>
    /\ dirExists = FALSE /\ store = <<>> /\ pre = NoStore /\ last = NoInvocation
    /\ ops = 0 /\ waiting = EmptyBag
    /\ out = NoResult

ChangeStatus(status) ==
    /\ Len(steps) < MaxChanges
    /\ body' = updateStatus(body, status)
    /\ steps' = Append(steps, [status |-> status, before |-> body, after |-> body'])
    /\ UNCHANGED <<dirExists, store, pre, last, ops, waiting, out>>

NextMerge == \E status \in Statuses : ChangeStatus(status)

SpecMerge == InitMerge /\ [][NextMerge]_vars

IsStatusLine(line) == HasPrefix(line, StatusMarker)
IsPreviousLine(line) == HasPrefix(line, PreviousMarker)
StatusLines(text) == SelectSeq(text, IsStatusLine)
PreviousLines(text) == SelectSeq(text, IsPreviousLine)
\* The value a status or previous-status line holds.
ValueOf(line, marker) == TrimSpace(TrimPrefix(line, marker))
\* The current status of a text: the value of its first status line, if any.
CurrentStatusOf(text) ==
    IF StatusLines(text) = <<>> THEN <<>> ELSE ValueOf(StatusLines(text)[1], StatusMarker)

\* C3: status merge is idempotent.  Applying to the result of a merge the
\* status just applied leaves it as it is, byte for byte; and a merge with the
\* status the body already has returns the body unchanged, with no
\* previous-status line added.
C3_MergeIdempotent ==
    \A i \in 1..Len(steps) :
        /\ (i < Len(steps) /\ steps[i + 1].status = steps[i].status)
               => steps[i + 1].after = steps[i].after
        /\ steps[i].status = CurrentStatusOf(steps[i].before)
               => /\ steps[i].after = steps[i].before
                  /\ Len(PreviousLines(steps[i].after)) = Len(PreviousLines(steps[i].before))

\* A body with a status line got a new status, and then the same one again.
C3_Witness ==
    /\ Len(steps) = 2
    /\ steps[1].status = steps[2].status
    /\ StatusLines(steps[1].before) # <<>>
    /\ steps[1].after # steps[1].before
    /\ steps[2].after = steps[1].after

\* C4: when a body has a status line, holding `old`, a merge with another
\* status leaves exactly one status line, holding the new status, and exactly
\* one previous-status line, holding `old`, whatever duplicate status lines and
\* previous-status lines the body had; so over successive changes the previous
\* status is overwritten.
C4_OneStatusOnePrevious ==
    \A i \in 1..Len(steps) :
        LET old == CurrentStatusOf(steps[i].before) IN
        (StatusLines(steps[i].before) # <<>> /\ steps[i].status # old)
            => /\ Len(StatusLines(steps[i].after)) = 1
               /\ ValueOf(StatusLines(steps[i].after)[1], StatusMarker) = steps[i].status
               /\ Len(PreviousLines(steps[i].after)) = 1
               /\ ValueOf(PreviousLines(steps[i].after)[1], PreviousMarker) = old

\* Two status changes in a row on a body that had two status lines and a
\* previous-status line: the second overwrites what the first recorded.
C4_Witness ==
    /\ Len(steps) = 2
    /\ Len(StatusLines(steps[1].before)) >= 2
    /\ PreviousLines(steps[1].before) # <<>>
    /\ steps[1].status # CurrentStatusOf(steps[1].before)
    /\ steps[2].status # steps[1].status
    /\ ValueOf(PreviousLines(steps[2].after)[1], PreviousMarker) = steps[1].status

(***************************************************************************)
(* Scanner runs: getNextADRNumber and updateIndex on a store as found.     *)
(***************************************************************************)
ScanPool ==
    {File(Adr001A, Text(LineText)), File(Adr003B, Text(LineText)), File(AdrXC, Text(LineText)),
     File(Adr010Txt, Text(LineText)), SubDir(Adr020Dir), File(Adr12F, Text(LineText)),
     File(Rec004, Text(LineText)), File(indexFile, Text(Stale)),
     File(templateFile, Text(LineText)),
     SubDir(Adr002Dir), File(Adr999Z, Text(LineText)),
     SubDir(indexFile), File(Adr005E, Text(LineText)), File(AdrBigG, Text(LineText))}

\* The directories of at most MaxEntries entries of the pool, in every on-disk order.
Listings ==
    {q \in UNION {[1..n -> ScanPool] : n \in 0..MaxEntries} :
        \A i, j \in 1..Len(q) : i # j => q[i].name # q[j].name}

InitScan ==
    /\ dirExists \in BOOLEAN
    /\ store \in Listings
    /\ ~dirExists => store = <<>>
    /\ out = NoResult
    /\ pre = NoStore /\ last = NoInvocation
    /\ ops = 0 /\ waiting = EmptyBag /\ body = << <<>> >> /\ steps = <<>>

\* getNextADRNumber is called; `listed` tells whether its os.ReadDir lists
\* the directory, which an absent directory never lets it.
CallNextNumber(listed) ==
    /\ out = NoResult
    /\ listed => dirExists
    /\ out' = [op |-> "next", number |-> getNextADRNumber(listed, store), listed |-> listed]
    /\ UNCHANGED <<dirExists, store, pre, last, ops, waiting, body, steps>>

CallUpdateIndex(faults) ==
    /\ out = NoResult
    /\ LET r == updateIndex(dirExists, store, IndexHeading, faults)
       IN  /\ store' = r.store
           /\ out' = [op |-> "index", err |-> r.err, found |-> store]
    /\ UNCHANGED <<dirExists, pre, last, ops, waiting, body, steps>>

NextScan ==
    \/ \E listed \in BOOLEAN : CallNextNumber(listed)
    \/ \E faults \in {{}, {"index"}, {"index_short"}} : CallUpdateIndex(faults)

SpecScan == InitScan /\ [][NextScan]_vars

\* The record files of a store: the entries that are no directory, end in
\* ".md" and are neither the index nor the template.
RecordNames(st) ==
    {st[i].name : i \in {k \in 1..Len(st) :
        /\ ~st[k].isDir
        /\ HasSuffix(st[k].name, mdSuffix)
        /\ st[k].name \notin {indexFile, templateFile}}}

\* The numbers of the record files named adr-<number>-*.md.
RecordNumbers(st) ==
    {DigitsValue(Atoi(Split(TrimPrefix(n, adrPrefix), Hyphen)[1]).val.mag) :
        n \in {m \in RecordNames(st) :
                  /\ HasPrefix(m, adrPrefix)
                  /\ Atoi(Split(TrimPrefix(m, adrPrefix), Hyphen)[1]).ok}}

\* C5: the next number is the largest number of a record file name
\* adr-<number>-*.md plus one, in at least three digits; gaps are not reused
\* (001 and 003 give 004), names whose number does not parse are skipped, and
\* an empty or absent store gives 001.
C5_NextNumber ==
    out.op = "next" =>
        /\ out.number = Sprintf03d(IntOf(Max(RecordNumbers(store) \cup {0}) + 1))
        /\ Len(out.number) >= 3
        /\ (~dirExists \/ RecordNumbers(store) = {}) => out.number = N001
        /\ RecordNames(store) = {Adr001A, Adr003B, AdrXC} => out.number = Four

\* The names of a set in ascending order.
RECURSIVE Ascending(_)
Ascending(S) ==
    IF S = {} THEN <<>>
    ELSE LET least == CHOOSE n \in S : \A m \in S \ {n} : StrLess(n, m)
         IN  <<least>> \o Ascending(S \ {least})

\* The index of a set of record names: the heading, an empty line, one line
\* "- [<display title>](<filename>)" per record in ascending order of name.
IndexOf(S, heading) ==
    LET names == Ascending(S)
    IN  <<heading, <<>>>>
        \o [i \in 1..Len(names) |->
               EntryOpen \o extractTitleFromFilename(names[i]) \o EntryMid
               \o names[i] \o EntryClose]
        \o << <<>> >>

\* C6: the index is a function of the set of record file names alone,
\* whatever order the files come in on disk and whatever the index file held:
\* the heading, then one line per record in ascending order of file name.
C6_IndexDeterministic ==
    (out.op = "index" /\ ~out.err) =>
        /\ ReadFile(store, indexFile) = IndexOf(RecordNames(out.found), IndexHeading)
        /\ RecordNames(out.found) = {Adr001A, Adr003B}
              => ReadFile(store, indexFile) = <<IndexHeading, <<>>, Entry001A, Entry003B, <<>>>>

\* 003 comes before 001 on disk, an index file is there already, and the
\* rebuilt index lists 001 first.
C6_Witness ==
    /\ out.op = "index" /\ ~out.err
    /\ out.found = <<File(Adr003B, Text(LineText)), File(indexFile, Text(Stale)),
                     File(Adr001A, Text(LineText))>>
    /\ ReadFile(store, indexFile) = <<IndexHeading, <<>>, Entry001A, Entry003B, <<>>>>

\* ---------------------------------------------------------------------------
\* The lifecycle: what a run of main leaves (specification Spec).
\* ---------------------------------------------------------------------------

\* The names in a store that begin with adr-<number>-.
PrefixNames(st, number) == {n \in Names(st) : HasPrefix(n, adrPrefixOf(number))}

\* Those of them that are files: a subdirectory of the store is no record.
PrefixFiles(st, number) == {n \in PrefixNames(st, number) : ~st[EntryAt(st, n)].isDir}

OneFilePerNumber(st) == \A n \in Numbers : Cardinality(PrefixFiles(st, n)) <= 1

\* A run that got a number and a status.
Invoked == last.fe \in {"flag", "interactive"} /\ last.number # <<>> /\ last.status # <<>>

Successes == {"created", "updated", "renamed"}

TookForNew == last.isNew /\ adrExists(TRUE, pre.store, last.number)

C2_CreateOrUpdate ==
    (Invoked /\ last.injected = {} /\ last.report # "prompt_failed") =>
        LET had == PrefixNames(pre.store, last.number)
            now == PrefixNames(store, last.number)
        IN  /\ (had = {} /\ last.title # <<>>) =>
                  /\ last.report = "created"
                  /\ CanReadFile(store, recordFilename(last.number, last.title))
            /\ had # {} =>
                  /\ last.report \in {"updated", "renamed"}
                  /\ Cardinality(now) <= Cardinality(had)

\* The file an index line points to: what stands between "](" and ")".
TargetOf(line) ==
    LET parts == Split(line, EntryMid) IN TrimSuffix(parts[Len(parts)], EntryClose)

\* C7: after a run that reports success the index has exactly one entry for
\* each record file of the store, and none for anything else: a file that is
\* not there, README.md, template.md, a subdirectory, a file that is no .md.
C7_IndexMatchesRecords ==
    (Invoked /\ last.report \in Successes) =>
        /\ CanReadFile(store, indexFile)
        /\ LET idx == ReadFile(store, indexFile)
               entries == {i \in 1..Len(idx) : HasPrefix(idx[i], EntryOpen)}
           IN  /\ {TargetOf(idx[i]) : i \in entries} = RecordNames(store)
               /\ Cardinality(entries) = Cardinality(RecordNames(store))
               /\ idx = IndexOf(RecordNames(store),
                                IF last.fe = "flag" THEN FlagIndexHeading ELSE IndexHeading)

\* A record was created in a store that holds another record, a subdirectory
\* named *.md, a template and a file that is no record.
C7_Witness ==
    /\ Invoked /\ last.report = "created"
    /\ Cardinality(RecordNames(store)) = 2
    /\ templateFile \in Names(store)
    /\ \E i \in 1..Len(store) : store[i].isDir /\ HasSuffix(store[i].name, mdSuffix)
    /\ \E i \in 1..Len(store) : ~HasSuffix(store[i].name, mdSuffix)

\* C8: an update whose title differs from the one in the heading leaves
\* adr-<n>-<slug>.md with the merged content and reports success; the old
\* file is gone from the store and from the index; when removing it fails,
\* the new file is written all the same and the run reports success, with a
\* warning.  Stated of the runs in which the environment makes no other call
\* than os.Remove fail.
C8_RenameCleanup ==
    (/\ Invoked /\ ~last.isNew /\ last.title # <<>>
     /\ last.injected \subseteq {"remove"}
     /\ CanReadFile(pre.store, last.oldFilename)
     /\ last.title # getCurrentTitle(ReadFile(pre.store, last.oldFilename))) =>
        LET old == ReadFile(pre.store, last.oldFilename)
            new == recordFilename(last.number, last.title)
        IN  /\ CanReadFile(store, new)
            /\ ReadFile(store, new) = updateTitle(updateStatus(old, last.status), last.title)
            /\ last.report = "renamed"
            /\ (new # last.oldFilename /\ "remove" \notin last.injected) =>
                  /\ last.oldFilename \notin Names(store)
                  /\ ~last.warn
                  /\ \A i \in 1..Len(ReadFile(store, indexFile)) :
                        ReadFile(store, indexFile)[i] # IndexEntry(last.oldFilename)
            /\ "remove" \in last.injected => last.warn

\* A run that was given no title for a number no name matches: the flag
\* front end without --title, main.go when its title prompt is ended
\* without an answer (it takes no empty title).
NoTitleGiven ==
    /\ Invoked /\ PrefixNames(pre.store, last.number) = {}
    /\ \/ last.fe = "flag" /\ last.title = <<>>
       \/ last.fe = "interactive" /\ last.isNew /\ last.report = "prompt_failed"

\* C9: a run for a number no name matches that is given no title ends in an
\* error and leaves everything as it was: no record, the index untouched, no
\* directory made.
C9_MissingTitle ==
    NoTitleGiven =>
        /\ last.report \in {"missing_title", "prompt_failed"}
        /\ store = pre.store
        /\ dirExists = pre.dirExists

\* C9, as the code has it: such a run ends in an error, writes no record and
\* leaves the index untouched; the flag front end makes no directory, and
\* main.go, which calls ensureDir before it asks for the title, leaves the
\* directory docs/adr made.
C9_MissingTitleByFrontEnd ==
    NoTitleGiven =>
        /\ store = pre.store
        /\ last.fe = "flag" => last.report = "missing_title" /\ dirExists = pre.dirExists
        /\ last.fe = "interactive" => last.report = "prompt_failed" /\ dirExists

\* The title was missing and the directory, absent before, is absent still.
C9_Witness ==
    /\ Invoked /\ last.report = "missing_title"
    /\ ~pre.dirExists /\ ~dirExists

\* C10: a run whose write of the record fails, before anything is written
\* or part of the way, reports the write error, not success, and the index
\* file is as it was.
C10_WriteFailure ==
    (Invoked /\ "write" \in last.failed) =>
        /\ last.report = "write_error"
        /\ last.report \notin Successes
        /\ (indexFile \in Names(store)) = (indexFile \in Names(pre.store))
        /\ indexFile \in Names(store) =>
              ReadFile(store, indexFile) = ReadFile(pre.store, indexFile)

\* The write failed after the old file of a rename was removed: the index,
\* not rebuilt, still lists the old file.
C10_Witness ==
    /\ Invoked /\ last.report = "write_error" /\ last.fe = "interactive"
    /\ last.oldFilename \in Names(pre.store) /\ last.oldFilename \notin Names(store)
    /\ indexFile \in Names(store)
    /\ \E i \in 1..Len(ReadFile(store, indexFile)) :
          ReadFile(store, indexFile)[i] = IndexEntry(last.oldFilename)

\* The content the last run had to write: the rendered template for a new
\* record, the merged content for an update.
NewContent ==
    IF last.isNew
    THEN renderTemplate(loadTemplateOrDefault(pre.store,
                            IF last.fe = "flag" THEN FlagDefaultTemplate ELSE DefaultTemplate,
                            last.injected),
                        last.number, last.status, last.title, Today)
    ELSE IF last.fe = "flag"
    THEN flagUpdate(ReadFile(pre.store, last.oldFilename), last.status)
    ELSE updateTitle(updateStatus(ReadFile(pre.store, last.oldFilename), last.status),
                     last.title)

\* C11: when the record is written and the index rebuild then fails, at its
\* listing or at its write, the record stays in the store with its new
\* content and the run reports an index error, which is not the write error
\* and not a success.
C11_IndexFailure ==
    (Invoked /\ "index" \in last.failed) =>
        /\ last.report = "index_error"
        /\ last.report # "write_error"
        /\ last.report \notin Successes
        /\ CanReadFile(store, last.filename)
        /\ ReadFile(store, last.filename) = NewContent

\* A record was created, the rebuild failed: the record is there and the
\* index, as it was, does not list it.
C11_Witness ==
    /\ Invoked /\ last.report = "index_error" /\ last.isNew
    /\ last.filename \notin Names(pre.store)
    /\ CanReadFile(store, last.filename)
    /\ indexFile \in Names(store)
    /\ \A i \in 1..Len(ReadFile(store, indexFile)) :
          ReadFile(store, indexFile)[i] # IndexEntry(last.filename)

(***************************************************************************)
(* A run that leaves the index stale, the failed runs after it and the     *)
(* first run after it whose index rebuild succeeds; and the runs that wait *)
(* at their title prompts meanwhile.                                       *)
(***************************************************************************)
\* The stores these runs start from: those without a directory in the place
\* of a record or of the index.
HealStores ==
    {s \in InitStores :
        \A i \in 1..Len(s.store) : s.store[i].isDir => s.store[i].name = ArchiveDir}

\* The titles given to these runs.
HealTitles == {Ecole}

\* The ways a run can fail that leaves the index stale: its rebuild fails,
\* after whatever did not end the run.
StaleFaultSets == {f \in FaultSets : f \cap {"index", "index_short"} # {}}

\* The failures before its prompt of a run of main.go that comes to wait.
WaitFaultSets == {f \in QuietFaultSets : f \subseteq BeforePrompt}

\* The status given to these runs.
HealStatuses == {Accepted}

InitHeal ==
    /\ \E s \in HealStores : dirExists = s.dirExists /\ store = s.store
    /\ pre = NoStore /\ last = NoInvocation
    /\ ops = 0 /\ waiting = EmptyBag
    /\ body = << <<>> >> /\ steps = <<>> /\ out = NoResult

\* The index is stale since a run on `number`; `failed` runs followed it.
LeftStale(number) == [op |-> "stale", number |-> number, failed |-> 0]
FailedAgain(was) == [was EXCEPT !.failed = @ + 1]
Healed(was) == [op |-> "next", stale |-> was.number, failed |-> was.failed]

\* What the runs so far amount to after a run that ends as r.  The first run
\* whose index rebuild fails after its write leaves the index stale.  When a
\* run after it fails, its rebuild not reached or failing too, the index
\* stays stale; the first run whose rebuild succeeds ends the wait.
After(r) ==
    IF out = NoResult
    THEN IF r.last.report = "index_error" THEN LeftStale(r.last.number) ELSE out
    ELSE IF out.op = "stale"
    THEN IF r.last.report \in Successes THEN Healed(out) ELSE FailedAgain(out)
    ELSE out

\* The runs taken.  Before the index is stale: the run that leaves it stale,
\* and a run that ends while another waits at its prompt (`beside`).  While
\* it is stale: a failed run that changes neither the directory nor a file
\* leaves the next run where the one before it left it, so the failed runs
\* taken and counted are those that change something: a record emptied or
\* lost, a new record without its index line, an index cut short.  After it
\* is rebuilt: the runs that waited.
Taken(r, beside) ==
    IF out = NoResult
    THEN \/ r.last.report = "index_error"
         \/ beside /\ (r.store # store \/ r.dirExists # dirExists)
    ELSE IF out.op = "stale"
    THEN \/ r.last.report \in Successes
         \/ out.failed < MaxFailed /\ (r.store # store \/ r.dirExists # dirExists)
    ELSE TRUE

\* The failures drawn for a run that ends now.  Before the index is stale:
\* those that leave it stale and those of a run that succeeds.  A run
\* succeeds only when no call of it fails but the existence check, the read
\* of the template or the removal, so past the last failed run only those
\* are drawn.
Drawn(faults) ==
    IF out = NoResult THEN faults \in StaleFaultSets \cup QuietFaultSets
    ELSE IF out.op = "stale" THEN out.failed < MaxFailed \/ faults \in QuietFaultSets
    ELSE TRUE

\* A run of main.go comes to its title prompt before the index is stale.
\* It is about record 002, which the start stores hold or do not hold; the
\* runs after the stale one are about either record.
StaleInteractive(number, status, faults) ==
    /\ out = NoResult /\ ops < MaxRuns + MaxFailed /\ last = NoInvocation
    /\ faults \subseteq CanCallBefore(dirExists, store, number)
    /\ \E b \in {interactiveBegin(dirExists, store, number, status, faults)} :
          b.waits /\ BeginTo(b, faults, out)

\* A run of the flag front end before the index is stale.
StaleFlag(number, status, title, faults) ==
    /\ out = NoResult /\ ops < MaxRuns + MaxFailed /\ last = NoInvocation
    /\ Drawn(faults)
    /\ faults \subseteq CanCall(dirExists, store, number)
    /\ \E r \in {flagMain(dirExists, store, number, status, title, faults)} :
          Taken(r, waiting # EmptyBag) /\ RunTo(r, faults, After(r))

\* A run of main.go comes to its title prompt while the index is stale.
LaterInteractive(number, status, faults) ==
    /\ out.op = "stale" /\ ops < MaxRuns + MaxFailed /\ last = NoInvocation
    /\ faults \subseteq CanCallBefore(dirExists, store, number)
    /\ \E b \in {interactiveBegin(dirExists, store, number, status, faults)} :
          b.waits /\ BeginTo(b, faults, out)

\* A run of the flag front end while the index is stale.
LaterFlag(number, status, title, faults) ==
    /\ out.op = "stale" /\ ops < MaxRuns + MaxFailed /\ last = NoInvocation
    /\ Drawn(faults)
    /\ faults \subseteq CanCall(dirExists, store, number)
    /\ \E r \in {flagMain(dirExists, store, number, status, title, faults)} :
          Taken(r, waiting # EmptyBag) /\ RunTo(r, faults, After(r))

\* The run w of main.go is given its title, or its prompt is ended, and it
\* runs to its end: before the index is stale, while it is, or after.
HealTitle(w, prompt, faults) ==
    /\ last = NoInvocation
    /\ Drawn(faults)
    /\ prompt.err \/ prompt.title \in HealTitles \cup {w.currentTitle}
    /\ faults \cap BeforePrompt = w.injected
    /\ faults \subseteq CanCallAfter(store, w, prompt.title)
    /\ \E r \in {interactiveResume(store, w, prompt, faults)} :
          /\ Taken(r, waiting (-) SetToBag({w}) # EmptyBag)
          /\ ResumeTo(w, r, faults, After(r))

\* A run ends and leaves the directory to those that start or wait.
StaleExit == (out.op = "stale" \/ waiting # EmptyBag) /\ Exit

NextHeal ==
    \/ StaleExit
    \/ /\ out = NoResult /\ ops < MaxRuns + MaxFailed /\ last = NoInvocation
       /\ \E status \in HealStatuses, faults \in WaitFaultSets :
             StaleInteractive(N002, status, faults)
    \/ /\ out = NoResult /\ ops < MaxRuns + MaxFailed /\ last = NoInvocation
       /\ \E status \in HealStatuses, title \in HealTitles, faults \in FaultSets :
             StaleFlag(N002, status, title, faults)
    \/ /\ out.op = "stale" /\ ops < MaxRuns + MaxFailed /\ last = NoInvocation
       /\ \E number \in Numbers, status \in HealStatuses, faults \in WaitFaultSets :
             LaterInteractive(number, status, faults)
    \/ /\ out.op = "stale" /\ ops < MaxRuns + MaxFailed /\ last = NoInvocation
       /\ \E number \in Numbers, status \in HealStatuses, title \in HealTitles \cup {<<>>},
             faults \in FaultSets :
             LaterFlag(number, status, title, faults)
    \/ /\ last = NoInvocation /\ waiting # EmptyBag
       /\ \E w \in BagToSet(waiting) :
             \E prompt \in promptForTitle(w.currentTitle), faults \in FaultSets :
                HealTitle(w, prompt, faults)

SpecHeal == InitHeal /\ [][NextHeal]_vars

\* The index of a store lists exactly its records, under either heading.
IndexCurrent(st) ==
    /\ CanReadFile(st, indexFile)
    /\ ReadFile(st, indexFile) \in {IndexOf(RecordNames(st), IndexHeading),
                                   IndexOf(RecordNames(st), FlagIndexHeading)}

\* C12: the index heals itself.  After a run that wrote its record and failed
\* to rebuild the index, and after the failed runs that followed it, the
\* first run whose rebuild succeeds leaves an index that lists exactly the
\* records then in the store, whatever record that run was about and
\* whichever front end ran.
C12_SelfHealing ==
    (out.op = "next" /\ Invoked /\ last.report \in Successes) =>
        /\ CanReadFile(store, indexFile)
        /\ LET idx == ReadFile(store, indexFile)
               entries == {i \in 1..Len(idx) : HasPrefix(idx[i], EntryOpen)}
           IN  /\ {TargetOf(idx[i]) : i \in entries} = RecordNames(store)
               /\ Cardinality(entries) = Cardinality(RecordNames(store))
               /\ idx = IndexOf(RecordNames(store),
                                IF last.fe = "flag" THEN FlagIndexHeading ELSE IndexHeading)

\* The index was stale, a failed run came between, and the run that healed
\* it was about another record than the run that left it stale.
C12_Witness ==
    /\ out.op = "next" /\ Invoked /\ last.report \in Successes
    /\ out.failed > 0
    /\ last.number # out.stale
    /\ indexFile \in Names(pre.store) /\ ~IndexCurrent(pre.store)
    /\ IndexCurrent(store)

\* The record files of a store with their contents.
Records(st) ==
    {[name |-> st[i].name, content |-> st[i].content] :
        i \in {k \in 1..Len(st) : st[k].name \in RecordNames(st)}}

\* What the flag front end leaves when started from the store the last run
\* started from, with the same number, status and title, and no call failing.
FlagTwin == flagMain(pre.dirExists, pre.store, last.number, last.status, last.title, {})

\* C13: the two front ends are equivalent.  From the same store and with the
\* same number, status and title they leave the same record files with the
\* same contents, and the same index.
C13_FrontEndsEquivalent ==
    (/\ Invoked /\ last.fe = "interactive"
     /\ last.failed = {} /\ last.report \in Successes) =>
        /\ FlagTwin.last.report \in Successes
        /\ Records(FlagTwin.store) = Records(store)
        /\ ReadFile(FlagTwin.store, indexFile) = ReadFile(store, indexFile)

\* C14: a run on a number that has a file leaves a file with that number's
\* prefix in the store, also when its write fails: the old file of a rename is
\* removed only after the new one is written.
C14_OldFileSurvives ==
    (Invoked /\ PrefixNames(pre.store, last.number) # {}) =>
        PrefixNames(store, last.number) # {}

\* The number segment of a record file name adr-<number>-<slug>.md.
NumberOfName(name) == Split(TrimPrefix(name, adrPrefix), Hyphen)[1]

\* Every record file of a store is named after the title in its heading.
InSync(st) ==
    \A r \in Records(st) :
        r.name = recordFilename(NumberOfName(r.name), getCurrentTitle(r.content))

\* The number in the heading "# ADR <number>: <title>" of a record.
NumberInHeading(content) ==
    LET hs == {i \in 1..Len(content) : IsHeadingWithTitle(content[i])}
    IN  IF hs = {} THEN <<>>
        ELSE TrimPrefix(SplitN2(content[Min(hs)], ColonSpace)[1], HeadingMarker \o Space)

PhUnknown == <<"{","{","f","o","o","}","}">>
\* "{"
Brace == <<"{">>
\* " (" and ") - " of the template of TestRenderTemplate
OpenParen == <<" ","(">>
CloseParenDash == <<")"," ","-"," ">>
\* A line feed, as a piece.
LineFeed == <<"\n">>

Placeholders == {PhNumber, PhStatus, PhTitle, PhDate}
Pieces == Placeholders \cup {PhUnknown, ADRSpace, Brace, LineFeed}

\* "ADR {{number}}: {{title}} ({{status}}) - {{date}}"
TestPieces ==
    <<ADRSpace, PhNumber, ColonSpace, PhTitle, OpenParen, PhStatus, CloseParenDash, PhDate>>

PieceSeqs == UNION {[1..n -> Pieces] : n \in 0..MaxPieces} \cup {TestPieces}

\* The text a sequence of pieces spells.
RECURSIVE TextOf(_)
TextOf(pieces) ==
    IF pieces = <<>> THEN Text(<<>>)
    ELSE Cat(IF pieces[1] = LineFeed THEN TextLn(<<>>) ELSE Text(pieces[1]),
             TextOf(Tail(pieces)))

\* The values a run supplies: a status and a title can hold a placeholder.
RenderStatuses == {Accepted, PhTitle}
RenderTitles == {Alpha, PhDate}

InitRender ==
    /\ steps \in PieceSeqs
    /\ body = TextOf(steps)
    /\ out = NoResult
    /\ dirExists = FALSE /\ store = <<>> /\ pre = NoStore /\ last = NoInvocation
    /\ ops = 0 /\ waiting = EmptyBag

Render(status, title) ==
    /\ out = NoResult
    /\ out' = [op |-> "render", number |-> N001, status |-> status, title |-> title,
               date |-> Today,
               result |-> renderTemplate(body, N001, status, title, Today)]
    /\ UNCHANGED <<dirExists, store, pre, last, ops, waiting, body, steps>>

NextRender == \E status \in RenderStatuses, title \in RenderTitles : Render(status, title)

SpecRender == InitRender /\ [][NextRender]_vars

\* What a piece becomes: a placeholder its value, anything else itself.
Rendered(piece) ==
    IF piece = PhNumber THEN out.number
    ELSE IF piece = PhStatus THEN out.status
    ELSE IF piece = PhTitle THEN out.title
    ELSE IF piece = PhDate THEN out.date
    ELSE piece

\* C16: rendering replaces every occurrence of {{number}}, {{status}},
\* {{title}} and {{date}} in one pass.  The result is the template with each
\* placeholder piece replaced by its value and every other piece, unknown
\* tokens included, as it was; a value that holds a placeholder is not
\* replaced again.
C16_RenderOnePass ==
    out.op = "render" =>
        /\ out.result = TextOf([i \in 1..Len(steps) |-> Rendered(steps[i])])
        /\ steps = TestPieces =>
              out.result = Text(ADRSpace \o N001 \o ColonSpace \o out.title \o OpenParen
                                \o out.status \o CloseParenDash \o Today)

\* The status placeholder occurs twice around an unknown token, and the
\* status given is "{{title}}": it stands in the result as it is.
C16_Witness ==
    /\ out.op = "render"
    /\ steps = <<PhStatus, PhUnknown, PhStatus>>
    /\ out.status = PhTitle
    /\ out.result = Text(PhTitle \o PhUnknown \o PhTitle)

(***************************************************************************)
(* What a status merge leaves of the rest of the body (SpecMerge).         *)
(***************************************************************************)
IsOtherLine(line) == ~IsStatusLine(line) /\ ~IsPreviousLine(line)
OtherLines(text) == SelectSeq(text, IsOtherLine)

\* C17: a status merge keeps all other content.  The lines of the result
\* that are neither status lines nor previous-status lines are the lines of
\* the body that are neither, each as often and in the same order; the date
\* lines are among them.
C17_OtherLinesPreserved ==
    \A i \in 1..Len(steps) : OtherLines(steps[i].after) = OtherLines(steps[i].before)

\* The lines of a text that begin with the heading marker, by position.
HeadingPositions(text) == {k \in 1..Len(text) : HasPrefix(text[k], HeadingMarker)}
StatusPositions(text) == {k \in 1..Len(text) : IsStatusLine(text[k])}

\* C18: a body without a status line gets exactly one status line, directly
\* followed by exactly one previous-status line: after the first heading
\* line (an empty line may stand between), also when several lines begin with
\* the heading marker, or as the first lines when there is no heading.
C18_InsertOnce ==
    \A i \in 1..Len(steps) :
        StatusLines(steps[i].before) = <<>> =>
            LET after == steps[i].after
                at == Min(StatusPositions(after))
                hs == HeadingPositions(after)
            IN  /\ Len(StatusLines(after)) = 1
                /\ Len(PreviousLines(after)) = 1
                /\ ValueOf(after[at], StatusMarker) = steps[i].status
                /\ at < Len(after) /\ IsPreviousLine(after[at + 1])
                /\ IF hs = {} THEN at = 1
                   ELSE \/ at = Min(hs) + 1
                        \/ at = Min(hs) + 2 /\ after[Min(hs) + 1] = <<>>

\* C19: the number getNextADRNumber proposes is free and valid: no entry of
\* the store begins with adr-<number>-, so main takes the create branch, and
\* the number passes the validation of the number prompt.
C19_NextNumberFresh ==
    out.op = "next" =>
        /\ ~adrExists(dirExists, store, out.number)
        /\ validNumber(out.number)

====
